---- MODULE Spec2Model ----
(***************************************************************************)
(* Math_AI_Agent backend: the response cache (response_cache.py), the       *)
(* retrieval merge (enhanced_retrieval.py), the content gate               *)
(* (ai_gateway.py) and the solve handlers (main.py, simple_main.py) as     *)
(* state machines.                                                         *)
(*                                                                         *)
(* Python dicts are modelled as sequences of entries in insertion order    *)
(* (the iteration order CPython guarantees); strings as sequences of       *)
(* one-character strings; time.time() as an integer clock that never goes  *)
(* backwards; retrieval scores as integers in hundredths and final_score   *)
(* in thousandths (0.7 and 0.3 become the weights 7 and 3).                *)
(***************************************************************************)
EXTENDS Integers, Sequences, FiniteSets, TLC

VARIABLES
    cache,          \* ResponseCache.cache: entries [key, response, timestamp]
    access_times,   \* ResponseCache.access_times: entries [key, time]
    max_size,       \* ResponseCache.max_size
    ttl,            \* ResponseCache.ttl
    now,            \* the value time.time() returns
    last,           \* the last completed cache call and what it returned
    threads,        \* per request thread: the cache call in progress and its locals
    index,          \* the documents of the Qdrant collection, as the query sees them
    kwargs,         \* hybrid_search's keyword arguments: top_k, score_threshold
    vector_results, \* the vector candidates: docs [key (source_id), score]
    keyword_results,\* the keyword candidates: docs [key (source_id), score]
    merged,         \* the list _merge_and_rerank returned
    phase,          \* "input" before the search or merge has run, then its name
    gate_op,        \* the gate method that was called, "none" before the call
    gate_arg,       \* the value it was called with: [type, chars]
    input_validation,  \* what validate_input returned (or raised)
    output_validation, \* what validate_output returned (or raised)
    qdrant_client,  \* main.py's global: FALSE when it is None
    request,        \* SolveRequest.question of the request being served
    position,       \* where the solve handler is: "idle", a tier, "done"
    calls,          \* the external calls this request has made: [tier, call, result]
    outcome         \* what the caller of solve receives

cacheVars == <<cache, access_times, max_size, ttl, now, last>>

retrVars == <<index, kwargs, vector_results, keyword_results, merged, phase>>

gateVars == <<gate_op, gate_arg, input_validation, output_validation>>

solveVars == <<qdrant_client, request, position, calls, outcome>>

vars == <<cache, access_times, max_size, ttl, now, last, threads,
          index, kwargs, vector_results, keyword_results, merged, phase,
          gate_op, gate_arg, input_validation, output_validation,
          qdrant_client, request, position, calls, outcome>>

-----------------------------------------------------------------------------
(* Bounds *)

\* the clock runs over 0..MaxTime
MaxTime == 2
\* the constructor's max_size is drawn from 0..MaxSize
MaxSize == 2
\* the constructor's ttl is drawn from 1..MaxTtl
MaxTtl == 1
\* request threads that use the shared cache at the same time
NumThreads == 2
\* cache calls each request thread makes
MaxCalls == 2

\* documents in the inputs of merge (more than the 5 it keeps)
NumDocs == 6
\* longest input list of merge in which document ids may repeat
MaxLen == 2
\* the program's constants: the merge weights (0.7, 0.3 as tenths) and the cut
VectorWeight == 7
KeywordWeight == 3
TopN == 5

\* points in the collection a hybrid search runs on
NumPoints == 2
\* words in the query of a keyword search
NumWords == 2
\* the program's constant: the page _keyword_search scrolls
ScrollLimit == 100

-----------------------------------------------------------------------------
(* Inputs of the cache operations *)

Queries == {<<"a">>, <<"a", "_">>}
Contexts == {<<>>, <<"_">>}
Models == {<<>>}
Payloads == {"p1", "p2"}

-----------------------------------------------------------------------------
(* Python dict helpers: a dict is a sequence of records with a key field *)

DictHas(d, k) == \E i \in 1..Len(d) : d[i].key = k

DictIdx(d, k) == CHOOSE i \in 1..Len(d) : d[i].key = k

DictGet(d, k) == d[DictIdx(d, k)]

DictDel(d, k) == SelectSeq(d, LAMBDA e : e.key # k)

DictSet(d, k, e) == IF DictHas(d, k) THEN [d EXCEPT ![DictIdx(d, k)] = e] ELSE Append(d, e)

DictKeys(d) == {d[i].key : i \in 1..Len(d)}

-----------------------------------------------------------------------------
(* ResponseCache *)

\* hashlib.md5 is taken as collision-free: the digest is identified with the
\* byte string it is computed from
Md5(s) == s

_generate_key(query, context, model) == Md5(query \o <<"_">> \o context \o <<"_">> \o model)

\* a plausible slip: the age measured from the last access, not from the insertion
Expired_sliding(c, a, key, t) == t - DictGet(a, key).time > ttl

\* get's expiry test: time.time() - self.cache[key]["timestamp"] > self.ttl
Expired(c, a, key, t) == t - DictGet(c, key).timestamp > ttl

\* set's capacity test
AtMaxSize(c) == Len(c) >= max_size

\* min(self.access_times.keys(), key=...): the first key, in iteration order,
\* whose access time is minimal
OldestIdx(a) == CHOOSE i \in 1..Len(a) :
                   /\ \A j \in 1..Len(a) : a[i].time <= a[j].time
                   /\ \A j \in 1..(i - 1) : a[j].time > a[i].time

\* a plausible slip: the eviction forgets the second del
_evict_oldest_keeps_access_time(c, a) ==
    IF Len(a) = 0
    THEN [cache |-> c, access_times |-> a, evicted |-> <<>>]
    ELSE LET oldest_key == a[OldestIdx(a)].key
         IN [cache |-> DictDel(c, oldest_key),
             access_times |-> a,
             evicted |-> <<oldest_key>>]

\* _evict_oldest: the cache, the access times and the evicted keys afterwards
_evict_oldest(c, a) ==
    IF Len(a) = 0
    THEN [cache |-> c, access_times |-> a, evicted |-> <<>>]
    ELSE LET oldest_key == a[OldestIdx(a)].key
         IN [cache |-> DictDel(c, oldest_key),
             access_times |-> DictDel(a, oldest_key),
             evicted |-> <<oldest_key>>]

Later(t) == {u \in {t, t + 1} : u <= MaxTime}

\* a plausible slip: a hit renews the entry's timestamp as well
Get_renews_timestamp(query, context, model) ==
    LET key == _generate_key(query, context, model) IN
    /\ IF DictHas(cache, key)
       THEN IF Expired(cache, access_times, key, now)
            THEN /\ cache' = DictDel(cache, key)
                 /\ access_times' = DictDel(access_times, key)
                 /\ now' = now
                 /\ last' = [op |-> "get", key |-> key, result |-> <<>>,
                             evicted |-> <<>>, expired |-> TRUE]
            ELSE \E t2 \in Later(now) :
                 /\ access_times' = DictSet(access_times, key, [key |-> key, time |-> t2])
                 /\ cache' = DictSet(cache, key, [DictGet(cache, key) EXCEPT !.timestamp = t2])
                 /\ now' = t2
                 /\ last' = [op |-> "get", key |-> key,
                             result |-> <<DictGet(cache, key).response>>,
                             evicted |-> <<>>, expired |-> FALSE]
       ELSE /\ UNCHANGED <<cache, access_times, now>>
            /\ last' = [op |-> "get", key |-> key, result |-> <<>>,
                        evicted |-> <<>>, expired |-> FALSE]
    /\ UNCHANGED <<max_size, ttl, threads, retrVars, gateVars, solveVars>>

\* a plausible slip: a get that finds its entry expired drops every expired entry
Get_purges_expired(query, context, model) ==
    LET key == _generate_key(query, context, model)
        fresh == SelectSeq(cache, LAMBDA e : ~(now - e.timestamp > ttl))
    IN
    /\ IF DictHas(cache, key)
       THEN IF Expired(cache, access_times, key, now)
            THEN /\ cache' = fresh
                 /\ access_times' = SelectSeq(access_times, LAMBDA e : DictHas(fresh, e.key))
                 /\ now' = now
                 /\ last' = [op |-> "get", key |-> key, result |-> <<>>,
                             evicted |-> <<>>, expired |-> TRUE]
            ELSE \E t2 \in Later(now) :
                 /\ access_times' = DictSet(access_times, key, [key |-> key, time |-> t2])
                 /\ cache' = cache
                 /\ now' = t2
                 /\ last' = [op |-> "get", key |-> key,
                             result |-> <<DictGet(cache, key).response>>,
                             evicted |-> <<>>, expired |-> FALSE]
       ELSE /\ UNCHANGED <<cache, access_times, now>>
            /\ last' = [op |-> "get", key |-> key, result |-> <<>>,
                        evicted |-> <<>>, expired |-> FALSE]
    /\ UNCHANGED <<max_size, ttl, threads, retrVars, gateVars, solveVars>>

Get(query, context, model) ==
    LET key == _generate_key(query, context, model) IN
    /\ IF DictHas(cache, key)
       THEN IF Expired(cache, access_times, key, now)
            THEN /\ cache' = DictDel(cache, key)
                 /\ access_times' = DictDel(access_times, key)
                 /\ now' = now
                 /\ last' = [op |-> "get", key |-> key, result |-> <<>>,
                             evicted |-> <<>>, expired |-> TRUE]
            ELSE \E t2 \in Later(now) :
                 /\ access_times' = DictSet(access_times, key, [key |-> key, time |-> t2])
                 /\ cache' = cache
                 /\ now' = t2
                 /\ last' = [op |-> "get", key |-> key,
                             result |-> <<DictGet(cache, key).response>>,
                             evicted |-> <<>>, expired |-> FALSE]
       ELSE /\ UNCHANGED <<cache, access_times, now>>
            /\ last' = [op |-> "get", key |-> key, result |-> <<>>,
                        evicted |-> <<>>, expired |-> FALSE]
    /\ UNCHANGED <<max_size, ttl, threads, retrVars, gateVars, solveVars>>

\* a plausible slip: an overwrite keeps the timestamp of the entry it replaces
Set_keeps_timestamp(query, response, context, model) ==
    LET key == _generate_key(query, context, model)
        ev == IF AtMaxSize(cache)
              THEN _evict_oldest(cache, access_times)
              ELSE [cache |-> cache, access_times |-> access_times, evicted |-> <<>>]
    IN
    \E t2 \in Later(now) :
       /\ cache' = DictSet(ev.cache, key,
                           [key |-> key, response |-> response,
                            timestamp |-> IF DictHas(cache, key)
                                          THEN DictGet(cache, key).timestamp
                                          ELSE now])
       /\ access_times' = DictSet(ev.access_times, key, [key |-> key, time |-> t2])
       /\ now' = t2
       /\ last' = [op |-> "set", key |-> key, result |-> <<>>,
                   evicted |-> ev.evicted, expired |-> FALSE]
       /\ UNCHANGED <<max_size, ttl, threads, retrVars, gateVars, solveVars>>

Set(query, response, context, model) ==
    LET key == _generate_key(query, context, model)
        ev == IF AtMaxSize(cache)
              THEN _evict_oldest(cache, access_times)
              ELSE [cache |-> cache, access_times |-> access_times, evicted |-> <<>>]
    IN
    \E t2 \in Later(now) :
       /\ cache' = DictSet(ev.cache, key,
                           [key |-> key, response |-> response, timestamp |-> now])
       /\ access_times' = DictSet(ev.access_times, key, [key |-> key, time |-> t2])
       /\ now' = t2
       /\ last' = [op |-> "set", key |-> key, result |-> <<>>,
                   evicted |-> ev.evicted, expired |-> FALSE]
       /\ UNCHANGED <<max_size, ttl, threads, retrVars, gateVars, solveVars>>

Clear ==
    /\ cache' = <<>>
    /\ access_times' = <<>>
    /\ last' = [op |-> "clear", key |-> <<>>, result |-> <<>>,
                evicted |-> <<>>, expired |-> FALSE]
    /\ UNCHANGED <<max_size, ttl, now, threads, retrVars, gateVars, solveVars>>

\* time passes between two operations
Tick ==
    /\ now < MaxTime
    /\ now' = now + 1
    /\ last' = [op |-> "tick", key |-> <<>>, result |-> <<>>,
                evicted |-> <<>>, expired |-> FALSE]
    /\ UNCHANGED <<cache, access_times, max_size, ttl, threads, retrVars, gateVars, solveVars>>

Threads == 1..NumThreads

IdleThread == [pc |-> "idle", key |-> <<>>, resp |-> "p1", oldest |-> <<>>, calls |-> 0]

\* no gate method has been called
GateIdle ==
    /\ gate_op = "none"
    /\ gate_arg = [type |-> "str", chars |-> <<>>]
    /\ input_validation = [raised |-> FALSE, valid |-> FALSE, error |-> "None",
                           sanitized_query |-> <<>>]
    /\ output_validation = [raised |-> FALSE, valid |-> FALSE,
                            filtered_response |-> <<>>, confidence |-> 0]

\* no request is being served
SolveIdle ==
    /\ qdrant_client = TRUE
    /\ request = [type |-> "str", chars |-> <<>>]
    /\ position = "idle"
    /\ calls = <<>>
    /\ outcome = [kind |-> "none", status |-> 0, source |-> "", detail |-> "",
                  answer |-> <<>>, confidence |-> 0]

\* no search has run
RetrIdle ==
    /\ index = <<>>
    /\ kwargs = [top_k |-> 5, score_threshold |-> 30]
    /\ vector_results = <<>>
    /\ keyword_results = <<>>
    /\ merged = <<>>
    /\ phase = "input"

\* ResponseCache.__init__
Init ==
    /\ RetrIdle
    /\ GateIdle
    /\ SolveIdle
    /\ threads = [t \in Threads |-> IdleThread]
    /\ cache = <<>>
    /\ access_times = <<>>
    /\ max_size \in 0..MaxSize
    /\ ttl \in 1..MaxTtl
    /\ now = 0
    /\ last = [op |-> "init", key |-> <<>>, result |-> <<>>,
               evicted |-> <<>>, expired |-> FALSE]

DoGet == \E q \in Queries, c \in Contexts, m \in Models : Get(q, c, m)

DoSet == \E q \in Queries, r \in Payloads, c \in Contexts, m \in Models : Set(q, r, c, m)

Next == DoGet \/ DoSet \/ Clear \/ Tick

Spec == Init /\ [][Next]_vars

-----------------------------------------------------------------------------
(* The same cache used by several request threads.  main.py builds one     *)
(* process-wide ResponseCache; FastAPI runs each synchronous endpoint in a *)
(* worker thread; ResponseCache takes no lock.  A thread runs one          *)
(* statement of get, set, _evict_oldest or clear per step.                  *)

Goto(t, pc) == threads' = [threads EXCEPT ![t].pc = pc]

\* a request thread calls get(query), set(query, response) or clear(), with
\* the default context="" and model=""
Call(t) ==
    /\ threads[t].pc = "idle"
    /\ threads[t].calls < MaxCalls
    /\ \E op \in {"g1", "s1", "c1"}, q \in Queries :
         threads' = [threads EXCEPT ![t] =
                       [pc |-> op, key |-> _generate_key(q, <<>>, <<>>), resp |-> "p1",
                        oldest |-> <<>>, calls |-> threads[t].calls + 1]]
    /\ UNCHANGED <<cacheVars, retrVars, gateVars, solveVars>>

\* get: if key in self.cache
G1(t) ==
    /\ threads[t].pc = "g1"
    /\ Goto(t, IF DictHas(cache, threads[t].key) THEN "g2" ELSE "idle")
    /\ UNCHANGED <<cacheVars, retrVars, gateVars, solveVars>>

\* get: if time.time() - self.cache[key]["timestamp"] > self.ttl
G2(t) ==
    /\ threads[t].pc = "g2"
    /\ Goto(t, IF ~DictHas(cache, threads[t].key) THEN "error"
               ELSE IF Expired(cache, access_times, threads[t].key, now) THEN "g3"
               ELSE "g5")
    /\ UNCHANGED <<cacheVars, retrVars, gateVars, solveVars>>

\* get: del self.cache[key]
G3(t) ==
    /\ threads[t].pc = "g3"
    /\ IF DictHas(cache, threads[t].key)
       THEN cache' = DictDel(cache, threads[t].key) /\ Goto(t, "g4")
       ELSE cache' = cache /\ Goto(t, "error")
    /\ UNCHANGED <<access_times, max_size, ttl, now, last, retrVars, gateVars, solveVars>>

\* get: if key in self.access_times
G4(t) ==
    /\ threads[t].pc = "g4"
    /\ Goto(t, IF DictHas(access_times, threads[t].key) THEN "g4d" ELSE "idle")
    /\ UNCHANGED <<cacheVars, retrVars, gateVars, solveVars>>

\* get: del self.access_times[key]
G4d(t) ==
    /\ threads[t].pc = "g4d"
    /\ IF DictHas(access_times, threads[t].key)
       THEN access_times' = DictDel(access_times, threads[t].key) /\ Goto(t, "idle")
       ELSE access_times' = access_times /\ Goto(t, "error")
    /\ UNCHANGED <<cache, max_size, ttl, now, last, retrVars, gateVars, solveVars>>

\* get: self.access_times[key] = time.time()
G5(t) ==
    /\ threads[t].pc = "g5"
    /\ access_times' = DictSet(access_times, threads[t].key,
                               [key |-> threads[t].key, time |-> now])
    /\ Goto(t, "g6")
    /\ UNCHANGED <<cache, max_size, ttl, now, last, retrVars, gateVars, solveVars>>

\* get: return self.cache[key]["response"]
G6(t) ==
    /\ threads[t].pc = "g6"
    /\ Goto(t, IF DictHas(cache, threads[t].key) THEN "idle" ELSE "error")
    /\ UNCHANGED <<cacheVars, retrVars, gateVars, solveVars>>

\* set: if len(self.cache) >= self.max_size
S1(t) ==
    /\ threads[t].pc = "s1"
    /\ Goto(t, IF AtMaxSize(cache) THEN "e1" ELSE "s2")
    /\ UNCHANGED <<cacheVars, retrVars, gateVars, solveVars>>

\* _evict_oldest: if not self.access_times: return
E1(t) ==
    /\ threads[t].pc = "e1"
    /\ Goto(t, IF Len(access_times) = 0 THEN "s2" ELSE "e2")
    /\ UNCHANGED <<cacheVars, retrVars, gateVars, solveVars>>

\* _evict_oldest: oldest_key = min(...), which raises ValueError on an empty dict
E2(t) ==
    /\ threads[t].pc = "e2"
    /\ IF Len(access_times) = 0
       THEN Goto(t, "error")
       ELSE threads' = [threads EXCEPT ![t].pc = "e3",
                                       ![t].oldest = <<access_times[OldestIdx(access_times)].key>>]
    /\ UNCHANGED <<cacheVars, retrVars, gateVars, solveVars>>

\* _evict_oldest: del self.cache[oldest_key]
E3(t) ==
    /\ threads[t].pc = "e3"
    /\ IF DictHas(cache, threads[t].oldest[1])
       THEN cache' = DictDel(cache, threads[t].oldest[1]) /\ Goto(t, "e4")
       ELSE cache' = cache /\ Goto(t, "error")
    /\ UNCHANGED <<access_times, max_size, ttl, now, last, retrVars, gateVars, solveVars>>

\* _evict_oldest: del self.access_times[oldest_key]
E4(t) ==
    /\ threads[t].pc = "e4"
    /\ IF DictHas(access_times, threads[t].oldest[1])
       THEN access_times' = DictDel(access_times, threads[t].oldest[1]) /\ Goto(t, "s2")
       ELSE access_times' = access_times /\ Goto(t, "error")
    /\ UNCHANGED <<cache, max_size, ttl, now, last, retrVars, gateVars, solveVars>>

\* set: self.cache[key] = {"response": response, "timestamp": time.time()}
S2(t) ==
    /\ threads[t].pc = "s2"
    /\ cache' = DictSet(cache, threads[t].key,
                        [key |-> threads[t].key, response |-> threads[t].resp,
                         timestamp |-> now])
    /\ Goto(t, "s3")
    /\ UNCHANGED <<access_times, max_size, ttl, now, last, retrVars, gateVars, solveVars>>

\* set: self.access_times[key] = time.time()
S3(t) ==
    /\ threads[t].pc = "s3"
    /\ access_times' = DictSet(access_times, threads[t].key,
                               [key |-> threads[t].key, time |-> now])
    /\ Goto(t, "idle")
    /\ UNCHANGED <<cache, max_size, ttl, now, last, retrVars, gateVars, solveVars>>

\* clear: self.cache.clear()
C1c(t) ==
    /\ threads[t].pc = "c1"
    /\ cache' = <<>>
    /\ Goto(t, "c2")
    /\ UNCHANGED <<access_times, max_size, ttl, now, last, retrVars, gateVars, solveVars>>

\* clear: self.access_times.clear()
C2c(t) ==
    /\ threads[t].pc = "c2"
    /\ access_times' = <<>>
    /\ Goto(t, "idle")
    /\ UNCHANGED <<cache, max_size, ttl, now, last, retrVars, gateVars, solveVars>>

\* the exception leaves the call; the request fails and the thread is free again
Raise(t) ==
    /\ threads[t].pc = "error"
    /\ threads' = [threads EXCEPT ![t].pc = "idle"]
    /\ UNCHANGED <<cacheVars, retrVars, gateVars, solveVars>>

\* time passes while requests are served
TickConc ==
    /\ now < MaxTime
    /\ now' = now + 1
    /\ UNCHANGED <<cache, access_times, max_size, ttl, last, threads, retrVars, gateVars, solveVars>>

\* the cache as main.py constructs it, with room for at least one entry
InitConc ==
    /\ Init
    /\ max_size >= 1

GetStep(t) == G1(t) \/ G2(t) \/ G3(t) \/ G4(t) \/ G4d(t) \/ G5(t) \/ G6(t)

SetStep(t) == S1(t) \/ E1(t) \/ E2(t) \/ E3(t) \/ E4(t) \/ S2(t) \/ S3(t)

ClearStep(t) == C1c(t) \/ C2c(t)

NextConc == TickConc \/ \E t \in Threads : Call(t) \/ GetStep(t) \/ SetStep(t) \/ ClearStep(t) \/ Raise(t)

SpecConc == InitConc /\ [][NextConc]_vars

-----------------------------------------------------------------------------
(* EnhancedRetrieval._merge_and_rerank.  A document is a record             *)
(* [key, score]: key is metadata.source_id, score is in hundredths.  A      *)
(* merged document carries final_score in thousandths as well.              *)

Min(a, b) == IF a < b THEN a ELSE b

\* for doc in vector_results: combined[doc_id] = doc.copy(), final_score = score * 0.7
RECURSIVE AddVector(_, _)
AddVector(combined, v) ==
    IF v = <<>> THEN combined
    ELSE LET doc == Head(v) IN
         AddVector(DictSet(combined, doc.key,
                           [key |-> doc.key, score |-> doc.score,
                            final_score |-> doc.score * VectorWeight]),
                   Tail(v))

\* a plausible slip: "=" for "+=", the keyword score replaces the vector's
RECURSIVE AddKeyword_overwrite(_, _)
AddKeyword_overwrite(combined, k) ==
    IF k = <<>> THEN combined
    ELSE LET doc == Head(k) IN
         AddKeyword_overwrite(DictSet(combined, doc.key,
                                      [key |-> doc.key, score |-> doc.score,
                                       final_score |-> doc.score * KeywordWeight]),
                              Tail(k))

\* for doc in keyword_results: boost the existing entry, or add a new one
RECURSIVE AddKeyword(_, _)
AddKeyword(combined, k) ==
    IF k = <<>> THEN combined
    ELSE LET doc == Head(k) IN
         AddKeyword(IF DictHas(combined, doc.key)
                    THEN [combined EXCEPT ![DictIdx(combined, doc.key)].final_score =
                                              @ + doc.score * KeywordWeight]
                    ELSE Append(combined,
                                [key |-> doc.key, score |-> doc.score,
                                 final_score |-> doc.score * KeywordWeight]),
                    Tail(k))

\* a plausible slip: reverse=True left out
Before_ascending(x, y) == x.final_score < y.final_score

\* x sorts before y under key=final_score, reverse=True
Before(x, y) == x.final_score > y.final_score

\* the place of c[i] in sorted(c, key=final_score, reverse=True): Python's sort
\* is stable, also with reverse=True, so equal scores keep their order in c
Rank(c, i) ==
    1 + Cardinality({j \in 1..Len(c) : Before(c[j], c[i]) \/ (~Before(c[i], c[j]) /\ j < i)})

SortedByFinalScore(c) ==
    [p \in 1..Len(c) |-> c[CHOOSE i \in 1..Len(c) : Rank(c, i) = p]]

\* sorted_results[:5]
Truncate(c) == SubSeq(c, 1, Min(TopN, Len(c)))

_merge_and_rerank(v, k) ==
    Truncate(SortedByFinalScore(AddKeyword(AddVector(<<>>, v), k)))

\* every document the merge scored, before the cut
Combined(v, k) == AddKeyword(AddVector(<<>>, v), k)

(* Inputs of merge *)

\* the scenario: vector {A 0.9}; keyword {A 0.5}, {B 0.6}  (A = 1, B = 2)
ScenarioVector == <<[key |-> 1, score |-> 90]>>
ScenarioKeyword == <<[key |-> 1, score |-> 50], [key |-> 2, score |-> 60]>>

\* per document: <<vector score, keyword score>>, 0 for "not in that list"
DocScores == {<<0, 0>>, <<30, 0>>, <<70, 0>>, <<0, 70>>, <<30, 70>>}

\* the documents with a score in column col, by ascending or descending id
RECURSIVE ListOf(_, _, _, _)
ListOf(assign, col, order, n) ==
    IF n = 0 THEN <<>>
    ELSE LET id == IF order = "asc" THEN NumDocs - n + 1 ELSE n
             rest == ListOf(assign, col, order, n - 1)
         IN IF assign[id][col] = 0 THEN rest
            ELSE <<[key |-> id, score |-> assign[id][col]]>> \o rest

\* lists of at most MaxLen documents over two ids, repeated ids included
BoundedSeq(S, n) == UNION {[1..m -> S] : m \in 0..n}
RepeatDocs == [key : {1, 2}, score : {30, 70}]

MergeInputs(v, k) ==
    \/ v = ScenarioVector /\ k = ScenarioKeyword
    \/ \E assign \in [1..NumDocs -> DocScores], vo \in {"asc", "desc"}, ko \in {"asc", "desc"} :
         /\ v = ListOf(assign, 1, vo, NumDocs)
         /\ k = ListOf(assign, 2, ko, NumDocs)
    \/ v \in BoundedSeq(RepeatDocs, MaxLen) /\ k \in BoundedSeq(RepeatDocs, MaxLen)

CacheIdle ==
    /\ cache = <<>>
    /\ access_times = <<>>
    /\ max_size = MaxSize
    /\ ttl = MaxTtl
    /\ now = 0
    /\ last = [op |-> "init", key |-> <<>>, result |-> <<>>,
               evicted |-> <<>>, expired |-> FALSE]
    /\ threads = [t \in Threads |-> IdleThread]

InitMerge ==
    /\ CacheIdle
    /\ GateIdle
    /\ SolveIdle
    /\ index = <<>>
    /\ kwargs = [top_k |-> 5, score_threshold |-> 30]
    /\ MergeInputs(vector_results, keyword_results)
    /\ merged = <<>>
    /\ phase = "input"

\* one call of _merge_and_rerank(vector_results, keyword_results, query)
Merge ==
    /\ phase = "input"
    /\ merged' = _merge_and_rerank(vector_results, keyword_results)
    /\ phase' = "merged"
    /\ UNCHANGED <<cacheVars, threads, gateVars, solveVars, index, kwargs, vector_results, keyword_results>>

NextMerge == Merge

SpecMerge == InitMerge /\ [][NextMerge]_vars

-----------------------------------------------------------------------------
(* EnhancedRetrieval.hybrid_search.  A point of the collection is a record  *)
(* [key, sim, exact, math, words]: its source_id, the similarity the index  *)
(* gives it for the query vector (hundredths), and what the keyword scan    *)
(* finds in its page_content: the whole query verbatim, a shared math       *)
(* expression, and the number of query words that occur in it, of how many  *)
(* query words.  The topic and grade_level filters only narrow the points   *)
(* the index looks at.                                                      *)

\* what the keyword scan can find in one document
KeywordFindings ==
    {[exact |-> FALSE, math |-> FALSE, words |-> 0, of |-> NumWords],
     [exact |-> FALSE, math |-> FALSE, words |-> 1, of |-> NumWords],
     [exact |-> FALSE, math |-> FALSE, words |-> NumWords, of |-> NumWords],
     [exact |-> FALSE, math |-> TRUE, words |-> 1, of |-> NumWords],
     [exact |-> TRUE, math |-> FALSE, words |-> NumWords, of |-> NumWords]}

Points == {[key |-> k, sim |-> v, exact |-> f.exact, math |-> f.math, words |-> f.words,
            of |-> f.of] :
             k \in 1..NumPoints, v \in {30, 90}, f \in KeywordFindings}

TopKs == {1, 3, 5}
Thresholds == {30, 50}

\* the stable descending sort by score both sources rely on
ScoreRank(c, i) ==
    1 + Cardinality({j \in 1..Len(c) : c[j].score > c[i].score
                                        \/ (c[j].score = c[i].score /\ j < i)})

SortedByScore(c) == [p \in 1..Len(c) |-> c[CHOOSE i \in 1..Len(c) : ScoreRank(c, i) = p]]

Take(c, n) == SubSeq(c, 1, Min(n, Len(c)))

\* qdrant_client.search(limit=top_k, score_threshold=...): the points at or
\* above the threshold, best first, at most limit of them; [] when it raises
_vector_search(idx, kw, fails) ==
    IF fails THEN <<>>
    ELSE LET hits == SelectSeq(idx, LAMBDA pt : pt.sim >= kw.score_threshold)
             docs == [i \in 1..Len(hits) |-> [key |-> hits[i].key, score |-> hits[i].sim]]
         IN Take(SortedByScore(docs), kw.top_k)

\* the composite score of one scanned document
KeywordScore(pt) ==
    IF pt.exact THEN 100
    ELSE IF pt.math THEN 80
    ELSE IF pt.words > 0 THEN (pt.words * 60) \div pt.of
    ELSE 0

\* a plausible slip: ">=" for ">", a score of exactly 0.3 is kept
_keyword_search_keeps_threshold(idx, kw, fails) ==
    IF fails THEN <<>>
    ELSE LET matches == SelectSeq(Take(idx, ScrollLimit), LAMBDA pt : KeywordScore(pt) >= 30)
             docs == [i \in 1..Len(matches) |->
                        [key |-> matches[i].key, score |-> KeywordScore(matches[i])]]
         IN Take(SortedByScore(docs), kw.top_k)

\* scroll(limit=100), score each document, keep score > 0.3, sort, cut to top_k;
\* [] when the scroll raises
_keyword_search(idx, kw, fails) ==
    IF fails THEN <<>>
    ELSE LET matches == SelectSeq(Take(idx, ScrollLimit), LAMBDA pt : KeywordScore(pt) > 30)
             docs == [i \in 1..Len(matches) |->
                        [key |-> matches[i].key, score |-> KeywordScore(matches[i])]]
         IN Take(SortedByScore(docs), kw.top_k)

InitHybrid ==
    /\ CacheIdle
    /\ GateIdle
    /\ SolveIdle
    /\ index \in [1..NumPoints -> Points]
    /\ kwargs \in [top_k : TopKs, score_threshold : Thresholds]
    /\ vector_results = <<>>
    /\ keyword_results = <<>>
    /\ merged = <<>>
    /\ phase = "input"

\* a plausible slip: the keyword search is left out once the vector search failed
HybridSearch_gives_up ==
    /\ phase = "input"
    /\ \E vfails, kfails \in BOOLEAN :
         /\ vector_results' = _vector_search(index, kwargs, vfails)
         /\ keyword_results' = IF vfails THEN <<>> ELSE _keyword_search(index, kwargs, kfails)
         /\ merged' = _merge_and_rerank(vector_results', keyword_results')
         /\ calls' = <<[tier |-> "vector", call |-> "search",
                        result |-> IF vfails THEN "error" ELSE "ok"],
                       [tier |-> "keyword", call |-> "scroll",
                        result |-> IF kfails THEN "error" ELSE "ok"]>>
    /\ phase' = "hybrid"
    /\ UNCHANGED <<cacheVars, threads, gateVars, index, kwargs,
                   qdrant_client, request, position, outcome>>

\* one call of hybrid_search(query, query_vector, **kwargs); either backend
\* call (qdrant_client.search, qdrant_client.scroll) may raise
HybridSearch ==
    /\ phase = "input"
    /\ \E vfails, kfails \in BOOLEAN :
         /\ vector_results' = _vector_search(index, kwargs, vfails)
         /\ keyword_results' = _keyword_search(index, kwargs, kfails)
         /\ merged' = _merge_and_rerank(vector_results', keyword_results')
         /\ calls' = <<[tier |-> "vector", call |-> "search",
                        result |-> IF vfails THEN "error" ELSE "ok"],
                       [tier |-> "keyword", call |-> "scroll",
                        result |-> IF kfails THEN "error" ELSE "ok"]>>
    /\ phase' = "hybrid"
    /\ UNCHANGED <<cacheVars, threads, gateVars, index, kwargs,
                   qdrant_client, request, position, outcome>>

NextHybrid == HybridSearch

SpecHybrid == InitHybrid /\ [][NextHybrid]_vars

-----------------------------------------------------------------------------
(* The content gate: AIGateway (ai_gateway.py).  A Python str is a sequence *)
(* of one-character strings; a character outside ASCII is written by its    *)
(* code point ("U+222B" is the integral sign).  A value passed to the gate  *)
(* is [type, chars]: chars is the text of a str and <<>> for other types.   *)
(* A confidence is an integer number of hundredths.                         *)

\* fragments a tested text is built from, at most
MaxFragments == 3

Digits == {"0", "1", "2", "3", "4", "5", "6", "7", "8", "9"}
\* the ASCII letters: <<upper case, lower case>>
CasePairs ==
    <<<<"A", "a">>, <<"B", "b">>, <<"C", "c">>, <<"D", "d">>, <<"E", "e">>,
      <<"F", "f">>, <<"G", "g">>, <<"H", "h">>, <<"I", "i">>, <<"J", "j">>,
      <<"K", "k">>, <<"L", "l">>, <<"M", "m">>, <<"N", "n">>, <<"O", "o">>,
      <<"P", "p">>, <<"Q", "q">>, <<"R", "r">>, <<"S", "s">>, <<"T", "t">>,
      <<"U", "u">>, <<"V", "v">>, <<"W", "w">>, <<"X", "x">>, <<"Y", "y">>,
      <<"Z", "z">>>>
\* what \s matches and str.strip() removes
Whitespace == {" ", "\n", "\t"}
\* what \w matches
WordChars ==
    {CasePairs[i][1] : i \in 1..Len(CasePairs)} \cup {CasePairs[i][2] : i \in 1..Len(CasePairs)}
    \cup Digits \cup {"_"}

Str(chars) == [type |-> "str", chars |-> chars]

\* str.lower()
lower(s) ==
    IF s = <<>> THEN <<>>
    ELSE [i \in 1..Len(s) |->
            IF \E k \in 1..Len(CasePairs) : CasePairs[k][1] = s[i]
            THEN CasePairs[CHOOSE k \in 1..Len(CasePairs) : CasePairs[k][1] = s[i]][2]
            ELSE s[i]]

\* w occurs in s at position i
MatchAt(s, w, i) ==
    /\ i + Len(w) - 1 <= Len(s)
    /\ \A j \in 1..Len(w) : s[i + j - 1] = w[j]

\* w in s
Contains(s, w) == \E i \in 1..(Len(s) - Len(w) + 1) : MatchAt(s, w, i)

\* any(w in s for w in list)
AnyIn(list, s) == \E k \in 1..Len(list) : Contains(s, list[k])

\* s.count(w): the occurrences of w that do not overlap, from the left
RECURSIVE CountFrom(_, _, _)
CountFrom(s, w, i) ==
    LET found == {j \in i..(Len(s) - Len(w) + 1) : MatchAt(s, w, j)} IN
    IF found = {} THEN 0
    ELSE 1 + CountFrom(s, w, (CHOOSE j \in found : \A k \in found : j <= k) + Len(w))

\* sum(s.count(w) for w in list)
RECURSIVE SumCounts(_, _)
SumCounts(s, list) ==
    IF list = <<>> THEN 0 ELSE CountFrom(s, Head(list), 1) + SumCounts(s, Tail(list))

\* s.strip()
strip(s) ==
    LET keep == {i \in 1..Len(s) : s[i] \notin Whitespace} IN
    IF keep = {} THEN <<>>
    ELSE SubSeq(s, CHOOSE i \in keep : \A j \in keep : i <= j,
                   CHOOSE i \in keep : \A j \in keep : i >= j)

\* re.sub(r'\s+', ' ', s): every run of whitespace becomes one space
RECURSIVE CollapseWhitespace(_)
CollapseWhitespace(s) ==
    IF s = <<>> THEN <<>>
    ELSE IF Head(s) \in Whitespace
         THEN IF Len(s) > 1 /\ s[2] \in Whitespace
              THEN CollapseWhitespace(Tail(s))
              ELSE <<" ">> \o CollapseWhitespace(Tail(s))
         ELSE <<Head(s)>> \o CollapseWhitespace(Tail(s))

\* every character of s[a..b] is in S
AllIn(s, a, b, S) == \A i \in a..b : s[i] \in S

math_keywords ==
    <<<<"d", "e", "r", "i", "v", "a", "t", "i", "v", "e">>,
      <<"i", "n", "t", "e", "g", "r", "a", "l">>,
      <<"e", "q", "u", "a", "t", "i", "o", "n">>,
      <<"s", "o", "l", "v", "e">>,
      <<"c", "a", "l", "c", "u", "l", "a", "t", "e">>,
      <<"f", "u", "n", "c", "t", "i", "o", "n">>,
      <<"a", "l", "g", "e", "b", "r", "a">>,
      <<"c", "a", "l", "c", "u", "l", "u", "s">>,
      <<"g", "e", "o", "m", "e", "t", "r", "y">>,
      <<"t", "r", "i", "g", "o", "n", "o", "m", "e", "t", "r", "y">>,
      <<"s", "t", "a", "t", "i", "s", "t", "i", "c", "s">>,
      <<"p", "r", "o", "b", "a", "b", "i", "l", "i", "t", "y">>,
      <<"m", "a", "t", "r", "i", "x">>, <<"v", "e", "c", "t", "o", "r">>,
      <<"l", "i", "m", "i", "t">>, <<"s", "e", "r", "i", "e", "s">>,
      <<"p", "o", "l", "y", "n", "o", "m", "i", "a", "l">>,
      <<"l", "o", "g", "a", "r", "i", "t", "h", "m">>,
      <<"e", "x", "p", "o", "n", "e", "n", "t", "i", "a", "l">>,
      <<"s", "i", "n">>, <<"c", "o", "s">>, <<"t", "a", "n">>,
      <<"s", "q", "r", "t">>, <<"s", "u", "m">>,
      <<"p", "r", "o", "d", "u", "c", "t">>,
      <<"f", "a", "c", "t", "o", "r">>, <<"p", "r", "i", "m", "e">>,
      <<"t", "h", "e", "o", "r", "e", "m">>, <<"p", "r", "o", "o", "f">>,
      <<"f", "o", "r", "m", "u", "l", "a">>,
      <<"m", "a", "c", "h", "i", "n", "e", "s">>,
      <<"w", "i", "d", "g", "e", "t", "s">>, <<"h", "o", "u", "r", "s">>,
      <<"m", "i", "n", "u", "t", "e", "s">>, <<"r", "a", "t", "e">>,
      <<"r", "a", "t", "i", "o">>,
      <<"p", "r", "o", "p", "o", "r", "t", "i", "o", "n">>,
      <<"s", "p", "e", "e", "d">>,
      <<"d", "i", "s", "t", "a", "n", "c", "e">>, <<"t", "i", "m", "e">>,
      <<"w", "o", "r", "k">>,
      <<"p", "r", "o", "d", "u", "c", "t", "i", "o", "n">>,
      <<"e", "f", "f", "i", "c", "i", "e", "n", "c", "y">>,
      <<"c", "o", "s", "t">>, <<"p", "r", "i", "c", "e">>,
      <<"p", "r", "o", "f", "i", "t">>,
      <<"p", "e", "r", "c", "e", "n", "t", "a", "g", "e">>,
      <<"p", "e", "r", "c", "e", "n", "t">>,
      <<"d", "i", "s", "c", "o", "u", "n", "t">>, <<"a", "r", "e", "a">>,
      <<"v", "o", "l", "u", "m", "e">>,
      <<"p", "e", "r", "i", "m", "e", "t", "e", "r">>,
      <<"c", "i", "r", "c", "u", "m", "f", "e", "r", "e", "n", "c", "e">>,
      <<"r", "a", "d", "i", "u", "s">>,
      <<"d", "i", "a", "m", "e", "t", "e", "r">>,
      <<"t", "r", "i", "a", "n", "g", "l", "e">>,
      <<"s", "q", "u", "a", "r", "e">>,
      <<"r", "e", "c", "t", "a", "n", "g", "l", "e">>,
      <<"c", "i", "r", "c", "l", "e">>, <<"s", "p", "h", "e", "r", "e">>,
      <<"c", "u", "b", "e">>, <<"a", "n", "g", "l", "e">>,
      <<"d", "e", "g", "r", "e", "e", "s">>,
      <<"r", "a", "d", "i", "a", "n", "s">>,
      <<"p", "a", "r", "a", "l", "l", "e", "l">>,
      <<"p", "e", "r", "p", "e", "n", "d", "i", "c", "u", "l", "a", "r">>,
      <<"s", "h", "a", "p", "e">>, <<"p", "o", "l", "y", "g", "o", "n">>,
      <<"v", "e", "r", "t", "e", "x">>, <<"e", "d", "g", "e">>,
      <<"f", "a", "c", "e">>, <<"s", "u", "r", "f", "a", "c", "e">>,
      <<"m", "e", "t", "e", "r", "s">>, <<"f", "e", "e", "t">>,
      <<"i", "n", "c", "h", "e", "s">>,
      <<"c", "e", "n", "t", "i", "m", "e", "t", "e", "r", "s">>,
      <<"k", "i", "l", "o", "m", "e", "t", "e", "r", "s">>,
      <<"m", "i", "l", "e", "s">>, <<"s", "e", "c", "o", "n", "d", "s">>,
      <<"m", "i", "n", "u", "t", "e", "s">>, <<"h", "o", "u", "r", "s">>,
      <<"d", "a", "y", "s">>, <<"w", "e", "e", "k", "s">>,
      <<"m", "o", "n", "t", "h", "s">>, <<"y", "e", "a", "r", "s">>,
      <<"g", "r", "a", "m", "s">>,
      <<"k", "i", "l", "o", "g", "r", "a", "m", "s">>,
      <<"p", "o", "u", "n", "d", "s">>, <<"o", "u", "n", "c", "e", "s">>,
      <<"l", "i", "t", "e", "r", "s">>,
      <<"g", "a", "l", "l", "o", "n", "s">>,
      <<"h", "o", "w", " ", "m", "a", "n", "y">>,
      <<"h", "o", "w", " ", "m", "u", "c", "h">>,
      <<"h", "o", "w", " ", "l", "o", "n", "g">>,
      <<"h", "o", "w", " ", "f", "a", "r">>,
      <<"h", "o", "w", " ", "f", "a", "s", "t">>, <<"f", "i", "n", "d">>,
      <<"d", "e", "t", "e", "r", "m", "i", "n", "e">>,
      <<"c", "o", "m", "p", "u", "t", "e">>,
      <<"e", "v", "a", "l", "u", "a", "t", "e">>,
      <<"e", "s", "t", "i", "m", "a", "t", "e">>>>

math_symbols ==
    <<<<"=">>, <<"+">>, <<"-">>, <<"*">>, <<"/">>, <<"^">>, <<"U+222B">>,
      <<"U+2211">>, <<"U+220F">>, <<"U+03C0">>, <<"U+221E">>, <<"U+221A">>,
      <<"%">>>>

\* re.search(r'\d+[\+\-\*/\^]\d+', q): a digit, an operator, a digit
NumberPattern(q) ==
    \E i \in 1..(Len(q) - 2) :
        /\ q[i] \in Digits
        /\ q[i + 1] \in {"+", "-", "*", "/", "^"}
        /\ q[i + 2] \in Digits

\* re.search(r'\d+\s+\w+\s+\d+\s+\w+', q): number, word, number, word with
\* whitespace between them; each index is where one of the pattern's runs ends
RatioPattern(q) ==
    \E d1 \in 1..Len(q) : q[d1] \in Digits /\
     \E s1 \in (d1 + 1)..Len(q) : AllIn(q, d1 + 1, s1, Whitespace) /\
      \E w1 \in (s1 + 1)..Len(q) : AllIn(q, s1 + 1, w1, WordChars) /\
       \E s2 \in (w1 + 1)..Len(q) : AllIn(q, w1 + 1, s2, Whitespace) /\
        \E d2 \in (s2 + 1)..Len(q) : AllIn(q, s2 + 1, d2, Digits) /\
         \E s3 \in (d2 + 1)..(Len(q) - 1) : AllIn(q, d2 + 1, s3, Whitespace) /\
          q[s3 + 1] \in WordChars

\* re.search(r'\d+\s*(meters?|feet|inches?|cm|km|miles?|seconds?|minutes?|hours?)', q):
\* a digit, any whitespace, a unit (listed without its optional s)
MeasurementPattern(q) ==
    LET measurement_units ==
          <<<<"m", "e", "t", "e", "r">>, <<"f", "e", "e", "t">>,
            <<"i", "n", "c", "h", "e">>, <<"c", "m">>, <<"k", "m">>,
            <<"m", "i", "l", "e">>, <<"s", "e", "c", "o", "n", "d">>,
            <<"m", "i", "n", "u", "t", "e">>, <<"h", "o", "u", "r">>>>
    IN
    \E d \in 1..Len(q) : q[d] \in Digits /\
     \E u \in d..Len(q) : AllIn(q, d + 1, u, Whitespace) /\
      \E k \in 1..Len(measurement_units) : MatchAt(q, measurement_units[k], u + 1)

\* the keyword test alone
_is_math_related_keywords_only(query) == AnyIn(math_keywords, lower(query))

\* a plausible slip: a number alone counts, with no operator after it
_is_math_related_any_number(query) ==
    \/ AnyIn(math_keywords, lower(query))
    \/ AnyIn(math_symbols, query)
    \/ \E i \in 1..Len(query) : query[i] \in Digits
    \/ MeasurementPattern(lower(query))

_is_math_related(query) ==
    LET query_lower == lower(query) IN
    IF AnyIn(math_keywords, query_lower) THEN TRUE
    ELSE IF AnyIn(math_symbols, query) THEN TRUE
    ELSE IF NumberPattern(query) THEN TRUE
    ELSE IF RatioPattern(query) THEN TRUE
    ELSE IF MeasurementPattern(query_lower) THEN TRUE
    ELSE FALSE

\* the words of the three inappropriate_patterns, in order
inappropriate_patterns ==
    <<<<<<"h", "a", "c", "k">>, <<"e", "x", "p", "l", "o", "i", "t">>, <<"b", "y", "p", "a", "s", "s">>, <<"c", "h", "e", "a", "t">>>>,
      <<<<"p", "e", "r", "s", "o", "n", "a", "l">>, <<"p", "r", "i", "v", "a", "t", "e">>, <<"c", "o", "n", "f", "i", "d", "e", "n", "t", "i", "a", "l">>>>,
      <<<<"v", "i", "o", "l", "e", "n", "c", "e">>, <<"h", "a", "r", "m">>, <<"i", "l", "l", "e", "g", "a", "l">>>>>>

\* re.search(r'\b(w)\b', s): w with no word character right before or after it
WordSearch(s, w) ==
    \E i \in 1..(Len(s) - Len(w) + 1) :
        /\ MatchAt(s, w, i)
        /\ i = 1 \/ s[i - 1] \notin WordChars
        /\ i + Len(w) - 1 = Len(s) \/ s[i + Len(w)] \notin WordChars

\* the first pattern alone
_contains_inappropriate_content_first_pattern(query) ==
    \E k \in 1..Len(inappropriate_patterns[1]) :
        WordSearch(lower(query), inappropriate_patterns[1][k])

_contains_inappropriate_content(query) ==
    LET query_lower == lower(query) IN
    \E p \in 1..Len(inappropriate_patterns) :
        \E k \in 1..Len(inappropriate_patterns[p]) :
            WordSearch(query_lower, inappropriate_patterns[p][k])

_sanitize_query(query) ==
    LET sanitized == CollapseWhitespace(strip(query)) IN
    SelectSeq(sanitized, LAMBDA c : c \notin {"<", ">", "{", "}"})

OutOfDomainError ==
    "This system is focused on mathematics education only. Please ask math-related questions."
InappropriateError == "Please keep questions appropriate for educational purposes."
UnableToProcessError == "Unable to process query. Please try again."

InputVerdict(valid, error, sanitized) ==
    [raised |-> FALSE, valid |-> valid, error |-> error, sanitized_query |-> sanitized]

\* the try block of validate_input: its verdict, or raised when query.lower()
\* is called on a value that is not a str (AttributeError; for bytes the
\* TypeError of the keyword test)
validate_input_try(query) ==
    IF query.type # "str"
    THEN [raised |-> TRUE, valid |-> FALSE, error |-> "AttributeError", sanitized_query |-> <<>>]
    ELSE IF ~_is_math_related(query.chars)
    THEN InputVerdict(FALSE, OutOfDomainError, <<>>)
    ELSE IF _contains_inappropriate_content(query.chars)
    THEN InputVerdict(FALSE, InappropriateError, <<>>)
    ELSE InputVerdict(TRUE, "None", <<_sanitize_query(query.chars)>>)

\* validate_input without its except clause
validate_input_unguarded(query) == validate_input_try(query)

\* sanitized_query is <<>> for None and <<text>> for a str
validate_input(query) ==
    LET verdict == validate_input_try(query) IN
    IF verdict.raised THEN InputVerdict(FALSE, UnableToProcessError, <<>>)
    ELSE verdict

educational_markers ==
    <<<<"s", "t", "e", "p">>, <<"s", "o", "l", "u", "t", "i", "o", "n">>,
      <<"a", "n", "s", "w", "e", "r">>,
      <<"f", "o", "r", "m", "u", "l", "a">>,
      <<"t", "h", "e", "o", "r", "e", "m">>, <<"p", "r", "o", "o", "f">>,
      <<"c", "a", "l", "c", "u", "l", "a", "t", "e">>,
      <<"s", "o", "l", "v", "e">>,
      <<"d", "e", "r", "i", "v", "a", "t", "i", "v", "e">>,
      <<"i", "n", "t", "e", "g", "r", "a", "l">>,
      <<"e", "q", "u", "a", "t", "i", "o", "n">>>>

\* a plausible slip: a text with an equals sign counts as educational too
_is_educational_response_or_equation(response) ==
    AnyIn(educational_markers, lower(response)) \/ Contains(response, <<"=">>)

_is_educational_response(response) == AnyIn(educational_markers, lower(response))

\* s.split('\n')
RECURSIVE split(_)
split(s) ==
    IF \A i \in 1..Len(s) : s[i] # "\n" THEN <<s>>
    ELSE LET n == CHOOSE i \in 1..Len(s) : s[i] = "\n" /\ \A j \in 1..(i - 1) : s[j] # "\n"
         IN <<SubSeq(s, 1, n - 1)>> \o split(SubSeq(s, n + 1, Len(s)))

\* '\n'.join(lines)
RECURSIVE join(_)
join(lines) ==
    IF lines = <<>> THEN <<>>
    ELSE IF Len(lines) = 1 THEN lines[1]
    ELSE lines[1] \o <<"\n">> \o join(Tail(lines))

\* a plausible slip: the last test left out, only symbols and connective
\* words keep a line
_is_educational_line_strict(line) ==
    \/ \E i \in 1..Len(line) : line[i] \in {"=", "+", "-", "*", "/", "^"}
    \/ AnyIn(<<<<"s", "t", "e", "p">>, <<"s", "o", "l", "u", "t", "i", "o", "n">>,
               <<"b", "e", "c", "a", "u", "s", "e">>,
               <<"t", "h", "e", "r", "e", "f", "o", "r", "e">>, <<"t", "h", "u", "s">>>>,
             lower(line))

_is_educational_line(line) ==
    LET line_symbols == {"=", "+", "-", "*", "/", "^", "U+222B", "U+2211", "U+220F", "U+03C0", "U+221E", "U+221A"}
        connective_words ==
          <<<<"s", "t", "e", "p">>, <<"s", "o", "l", "u", "t", "i", "o", "n">>,
            <<"b", "e", "c", "a", "u", "s", "e">>,
            <<"t", "h", "e", "r", "e", "f", "o", "r", "e">>, <<"t", "h", "u", "s">>>>
    IN IF \E i \in 1..Len(line) : line[i] \in line_symbols THEN TRUE
       ELSE IF AnyIn(connective_words, lower(line)) THEN TRUE
       ELSE Len(strip(line)) > 0

_filter_response(response) ==
    LET lines == split(response)
        filtered_lines == SelectSeq(lines, _is_educational_line)
    IN IF filtered_lines # <<>> THEN join(filtered_lines) ELSE response

confidence_symbols ==
    <<<<"=">>, <<"U+222B">>, <<"U+2211">>, <<"U+220F">>, <<"U+03C0">>,
      <<"U+221E">>, <<"U+221A">>, <<"^">>>>

math_terms ==
    <<<<"d", "e", "r", "i", "v", "a", "t", "i", "v", "e">>,
      <<"i", "n", "t", "e", "g", "r", "a", "l">>,
      <<"e", "q", "u", "a", "t", "i", "o", "n">>,
      <<"f", "o", "r", "m", "u", "l", "a">>,
      <<"t", "h", "e", "o", "r", "e", "m">>>>

\* the four terms added up without a cap
_calculate_confidence_uncapped(response) ==
    SumCounts(response, confidence_symbols) * 10
    + (IF Contains(lower(response), <<"s", "t", "e", "p">>) THEN 20 ELSE 0)
    + SumCounts(lower(response), math_terms) * 10
    + (IF Len(response) > 100 THEN 20 ELSE 0)

_calculate_confidence(response) ==
    LET symbol_count == SumCounts(response, confidence_symbols)
        term_count == SumCounts(lower(response), math_terms)
        confidence == Min(symbol_count * 10, 30)
                      + (IF Contains(lower(response), <<"s", "t", "e", "p">>) THEN 20 ELSE 0)
                      + Min(term_count * 10, 30)
                      + (IF Len(response) > 100 THEN 20 ELSE 0)
    IN Min(confidence, 100)

NotEducationalMessage ==
    <<"I", " ", "c", "a", "n", " ", "o", "n", "l", "y", " ", "p", "r", "o",
      "v", "i", "d", "e", " ", "e", "d", "u", "c", "a", "t", "i", "o", "n",
      "a", "l", " ", "m", "a", "t", "h", "e", "m", "a", "t", "i", "c", "s",
      " ", "c", "o", "n", "t", "e", "n", "t", ".", " ", "P", "l", "e", "a",
      "s", "e", " ", "a", "s", "k", " ", "a", " ", "m", "a", "t", "h", " ",
      "q", "u", "e", "s", "t", "i", "o", "n", ".">>

ErrorProcessingMessage ==
    <<"E", "r", "r", "o", "r", " ", "p", "r", "o", "c", "e", "s", "s", "i",
      "n", "g", " ", "r", "e", "s", "p", "o", "n", "s", "e", ".", " ", "P",
      "l", "e", "a", "s", "e", " ", "t", "r", "y", " ", "a", "g", "a", "i",
      "n", ".">>

OutputVerdict(valid, filtered, confidence) ==
    [raised |-> FALSE, valid |-> valid, filtered_response |-> filtered,
     confidence |-> confidence]

\* the try block of validate_output: its verdict, or raised when
\* response.lower() is called on a value that is not a str
validate_output_try(response) ==
    IF response.type # "str"
    THEN [raised |-> TRUE, valid |-> FALSE, filtered_response |-> <<>>, confidence |-> 0]
    ELSE IF ~_is_educational_response(response.chars)
    THEN OutputVerdict(FALSE, NotEducationalMessage, 0)
    ELSE LET filtered == _filter_response(response.chars)
         IN OutputVerdict(TRUE, filtered, _calculate_confidence(filtered))

validate_output(response) ==
    LET verdict == validate_output_try(response) IN
    IF verdict.raised THEN OutputVerdict(FALSE, ErrorProcessingMessage, 0)
    ELSE verdict

-----------------------------------------------------------------------------
(* The texts the gate is called with: every concatenation of at most        *)
(* MaxFragments fragments, the scenario inputs of the specification, one    *)
(* input for each structural pattern, and values that are not text.         *)

\* the concatenations of at most n fragments
RECURSIVE Built(_, _)
Built(fragments, n) ==
    IF n = 0 THEN {<<>>}
    ELSE LET shorter == Built(fragments, n - 1)
         IN shorter \cup {t \o f : t \in shorter, f \in fragments}

ScenarioSolve == <<"S", "o", "l", "v", "e", " ", "2", "x", " ", "+", " ", "3", " ", "=", " ", "7">>
ScenarioPhone ==
    <<"W", "h", "a", "t", "'", "s", " ", "y", "o", "u", "r", " ", "p", "h",
      "o", "n", "e", " ", "n", "u", "m", "b", "e", "r", "?">>

\* texts of a disallowed word, a keyword, whitespace, a removed character, a
\* symbol, a digit and a letter; the scenarios; a ratio and a measurement
Inputs ==
    LET fragments ==
          {<<"h", "a", "r", "m">>, <<"s", "u", "m">>, <<" ">>, <<"<">>, <<"=">>, <<"1">>, <<"X">>}
    IN Built(fragments, MaxFragments) \cup {ScenarioSolve, ScenarioPhone}
       \cup {<<"3", " ", "c", "a", "t", "s", " ", "4", " ", "d", "o", "g", "s">>, <<"5", " ", "c", "m">>}

NonText == {[type |-> "NoneType", chars |-> <<>>], [type |-> "int", chars |-> <<>>],
            [type |-> "bytes", chars |-> <<>>]}

RichResponse ==
    <<"S", "t", "e", "p", " ", "1", ":", " ", "x", "^", "2", " ", "=", " ",
      "4", "\n", "S", "t", "e", "p", " ", "2", ":", " ", "x", " ", "=", " ",
      "2", " ", "o", "r", " ", "x", " ", "=", " ", "-", "2", "\n", "T", "h",
      "e", " ", "f", "o", "r", "m", "u", "l", "a", " ", "a", "n", "d", " ",
      "t", "h", "e", " ", "e", "q", "u", "a", "t", "i", "o", "n", " ", "f",
      "o", "l", "l", "o", "w", " ", "f", "r", "o", "m", " ", "t", "h", "e",
      " ", "t", "h", "e", "o", "r", "e", "m", ".">>

\* texts of markers, a symbol, a term, line breaks and plain words, each also
\* followed by more than 100 characters without a symbol or a term
Responses ==
    LET fragments ==
          {<<"S", "t", "e", "p">>, <<"=">>, <<"f", "o", "r", "m", "u", "l", "a">>, <<"\n">>, <<" ">>, <<"o", "k">>}
        bodies == Built(fragments, MaxFragments) \cup {RichResponse}
        filler == [i \in 1..101 |-> "x"]
    IN bodies \cup {b \o filler : b \in bodies}

\* one call of validate_input, with any tested value
ValidateInput ==
    /\ gate_op = "none"
    /\ \E query \in {Str(t) : t \in Inputs} \cup NonText :
         /\ gate_arg' = query
         /\ input_validation' = validate_input(query)
    /\ gate_op' = "validate_input"
    /\ UNCHANGED <<cacheVars, threads, retrVars, output_validation, solveVars>>

\* one call of validate_output, with any tested value
ValidateOutput ==
    /\ gate_op = "none"
    /\ \E response \in {Str(t) : t \in Responses} \cup NonText :
         /\ gate_arg' = response
         /\ output_validation' = validate_output(response)
    /\ gate_op' = "validate_output"
    /\ UNCHANGED <<cacheVars, threads, retrVars, input_validation, solveVars>>

InitGate ==
    /\ CacheIdle
    /\ RetrIdle
    /\ GateIdle
    /\ SolveIdle

NextGate == ValidateInput \/ ValidateOutput

SpecGate == InitGate /\ [][NextGate]_vars

-----------------------------------------------------------------------------
(* The solve handler of main.py, one step per tier.  Every external call    *)
(* (Qdrant, the MCP search client, Ollama) ends in one of the ways the code *)
(* provides for; the handler's position, the calls it has made and what the *)
(* caller receives are the state.  An outcome is the raised HTTPException   *)
(* (kind "exception": status, detail) or the returned dict (kind            *)
(* "response": source, and either the gated text the answer carries with    *)
(* its confidence, or the fixed message in detail).  processing_time and    *)
(* the decoration around the gated text are left out.                       *)

\* initialize_components: AIGateway(), MCPClient() and OllamaClient(url) do no
\* I/O and cannot fail, so these globals are never None; only qdrant_client
\* can be, and enhanced_retrieval is created exactly when it is not
components == [ai_gateway |-> TRUE, search_client |-> TRUE, ollama_client |-> TRUE]

\* the questions a request carries (SolveRequest strips them)
Questions ==
    {ScenarioSolve, ScenarioPhone, <<"h", "a", "r", "m", "=">>, <<"=", " ", "<">>, <<"5", " ", "c", "m">>}

\* the collection: empty, one document with any finding of the keyword scan,
\* or two documents the scan ranks against their order
Collections ==
    {<<>>,
     <<[key |-> 2, sim |-> 30, exact |-> FALSE, math |-> FALSE, words |-> NumWords, of |-> NumWords],
       [key |-> 1, sim |-> 30, exact |-> TRUE, math |-> FALSE, words |-> NumWords, of |-> NumWords]>>}
    \cup {<<pt>> : pt \in {p \in Points : p.sim = 30}}

\* the documents a collection can hold
NumContents == 5

\* page_content of a document: the first carries an educational marker and
\* the second none; the others carry math expressions
page_content(key) ==
    IF key = 1 THEN <<"S", "t", "e", "p", " ", "1", ":", " ", "x", " ", "=", " ", "2">>
    ELSE IF key = 3
    THEN <<"S", "o", "l", "v", "e", " ", "f", "(", "x", ")", " ", "=", " ", "2", " ", "n", "o", "w">>
    ELSE IF key = 4 THEN <<"f", "(", "x", ")", "=", "2">>
    ELSE IF key = 5 THEN <<"f", "(", "x", ")", "=", "2", "5">>
    ELSE <<"x", " ", "i", "s", " ", "2">>

\* f"**From Knowledge Base:**\n\n{kb_content}\n\n**Source:** {source_id}"
FromKnowledgeBase(doc) ==
    <<"*", "*", "F", "r", "o", "m", " ", "K", "n", "o", "w", "l", "e", "d",
      "g", "e", " ", "B", "a", "s", "e", ":", "*", "*", "\n", "\n">>
    \o page_content(doc.key) \o
    <<"\n", "\n", "*", "*", "S", "o", "u", "r", "c", "e", ":", "*", "*", " ">>
    \o <<<<"0", "1", "2", "3", "4", "5", "6", "7", "8", "9">>[doc.key + 1]>>

\* what the POST to /api/generate can end in: a timeout, another request
\* error, or a body with a response text
HttpOutcomes ==
    [kind : {"timeout", "error"}, response : {<<>>}]
    \cup [kind : {"ok"},
          response : {<<"S", "o", "l", "u", "t", "i", "o", "n", ":", " ", "x", " ", "=", " ", "2">>,
                          <<"o", "k">>, <<" ">>}]

\* OllamaClient.generate: <<>> for None, <<text>> for the stripped response
generate(http) ==
    IF http.kind = "timeout" THEN <<>>
    ELSE IF http.kind = "error" THEN <<>>
    ELSE <<strip(http.response)>>

\* if response:
Truthy(response) == response # <<>> /\ response[1] # <<>>

Called(tier, call, result) == [tier |-> tier, call |-> call, result |-> result]

\* ollama_client.is_available() and, when it is, ollama_client.generate(...)
GeneratorCalls(tier, available, http) ==
    <<Called(tier, "is_available", IF available THEN "ok" ELSE "error")>>
    \o (IF available
        THEN <<Called(tier, "generate",
                      IF http.kind # "ok" THEN http.kind
                      ELSE IF Truthy(generate(http)) THEN "ok" ELSE "empty")>>
        ELSE <<>>)

HTTPException(status_code, detail) ==
    [kind |-> "exception", status |-> status_code, source |-> "", detail |-> detail,
     answer |-> <<>>, confidence |-> 0]

\* the text is put into the returned dict as it is
Answer_unvalidated(source, response) ==
    [kind |-> "response", status |-> 200, source |-> source, detail |-> "",
     answer |-> response, confidence |-> 0]

\* output_validation = ai_gateway.validate_output(response), and the returned
\* dict, whose answer carries filtered_response
Answer(source, response) ==
    LET validation == validate_output(Str(response)) IN
    [kind |-> "response", status |-> 200, source |-> source, detail |-> "",
     answer |-> validation.filtered_response, confidence |-> validation.confidence]

\* a returned dict whose answer is a fixed message
Message(source, text) ==
    [kind |-> "response", status |-> 200, source |-> source, detail |-> text,
     answer |-> <<>>, confidence |-> 0]

\* the tier after web is the final message
NextTier_skip_direct(tier) ==
    IF tier = "kb" THEN "web"
    ELSE "final"

\* the tier after kb is direct generation
NextTier_skip_web(tier) ==
    IF tier = "kb" THEN "direct"
    ELSE IF tier = "web" THEN "direct"
    ELSE "final"

\* the order of the tier blocks in solve: 1 (line 218), 2 (line 292),
\* 3 (line 337), 4 (line 362)
NextTier(tier) ==
    IF tier = "kb" THEN "web"
    ELSE IF tier = "web" THEN "direct"
    ELSE "final"

\* the tier block ends without a return: control falls through to the next
Demote(made) ==
    /\ position' = NextTier(position)
    /\ calls' = calls \o made
    /\ UNCHANGED outcome

\* the handler returns or raises
Return(made, result) ==
    /\ position' = "done"
    /\ calls' = calls \o made
    /\ outcome' = result

InitSolve ==
    /\ CacheIdle
    /\ GateIdle
    /\ qdrant_client \in BOOLEAN
    /\ index \in (IF qdrant_client THEN Collections ELSE {<<>>})
    /\ kwargs \in [top_k : {3}, score_threshold : {30, 90}]
    /\ vector_results = <<>>
    /\ keyword_results = <<>>
    /\ merged = <<>>
    /\ phase = "input"
    /\ request \in {Str(q) : q \in Questions}
    /\ position = "idle"
    /\ calls = <<>>
    /\ outcome = [kind |-> "none", status |-> 0, source |-> "", detail |-> "",
                  answer |-> <<>>, confidence |-> 0]

\* lines 192-215.  The HTTPException of line 209 carries the verdict's error,
\* but it is raised inside the try block and HTTPException is an Exception:
\* line 213 catches it and line 215 raises another one
Receive ==
    /\ position = "idle"
    /\ IF ~components.ai_gateway
       THEN Return(<<>>, HTTPException(503, "AI Gateway not available"))
       ELSE LET verdict == validate_input(request)
                raised_in_try == ~verdict.valid
            IN IF raised_in_try
               THEN Return(<<>>, HTTPException(400, "Invalid input"))
               ELSE /\ position' = "kb"
                    /\ UNCHANGED <<calls, outcome>>
    /\ UNCHANGED <<cacheVars, threads, retrVars, gateVars, qdrant_client, request>>

\* a plausible slip: as in the web tier, a failed generation falls through
KnowledgeBaseTier_falls_through ==
    /\ position = "kb"
    /\ IF ~qdrant_client
       THEN Demote(<<>>)
       ELSE \E collections \in {"ok", "empty", "error"} :
            IF collections # "ok"
            THEN Demote(<<Called("kb", "get_collections", collections)>>)
            ELSE \E fails \in BOOLEAN :
                 LET kb_results == _keyword_search(index, kwargs, fails)
                     searched ==
                         <<Called("kb", "get_collections", "ok"),
                           Called("kb", "index_search",
                                  IF fails THEN "error"
                                  ELSE IF kb_results = <<>> THEN "empty" ELSE "ok")>>
                 IN IF kb_results # <<>> /\ kb_results[1].score > kwargs.score_threshold
                    THEN \E available \in BOOLEAN, http \in HttpOutcomes :
                         LET response == generate(http)
                             made == searched \o GeneratorCalls("kb", components.ollama_client /\ available, http)
                         IN IF components.ollama_client /\ available /\ Truthy(response)
                            THEN Return(made, Answer("knowledge_base+llm", response[1]))
                            ELSE Demote(made)
                    ELSE Demote(searched)
    /\ UNCHANGED <<cacheVars, threads, retrVars, gateVars, qdrant_client, request>>

\* lines 218-290: get_collections, the keyword search with top_k=3, and for a
\* match above the threshold the generator, else the raw content
KnowledgeBaseTier ==
    /\ position = "kb"
    /\ IF ~qdrant_client
       THEN Demote(<<>>)
       ELSE \E collections \in {"ok", "empty", "error"} :
            IF collections # "ok"
            THEN Demote(<<Called("kb", "get_collections", collections)>>)
            ELSE \E fails \in BOOLEAN :
                 LET kb_results == _keyword_search(index, kwargs, fails)
                     searched ==
                         <<Called("kb", "get_collections", "ok"),
                           Called("kb", "index_search",
                                  IF fails THEN "error"
                                  ELSE IF kb_results = <<>> THEN "empty" ELSE "ok")>>
                 IN IF kb_results # <<>> /\ kb_results[1].score > kwargs.score_threshold
                    THEN \E available \in BOOLEAN, http \in HttpOutcomes :
                         LET response == generate(http)
                             made == searched \o GeneratorCalls("kb", components.ollama_client /\ available, http)
                         IN IF components.ollama_client /\ available /\ Truthy(response)
                            THEN Return(made, Answer("knowledge_base+llm", response[1]))
                            ELSE Return(made, Answer("knowledge_base",
                                                     FromKnowledgeBase(kb_results[1])))
                    ELSE Demote(searched)
    /\ UNCHANGED <<cacheVars, threads, retrVars, gateVars, qdrant_client, request>>

\* a plausible slip: a text the gate rejects sends the request to the next tier
WebSearchTier_retries_rejected ==
    /\ position = "web"
    /\ IF ~components.search_client
       THEN Demote(<<>>)
       ELSE \E found \in {"ok", "empty", "error"} :
            IF found # "ok"
            THEN Demote(<<Called("web", "search", found)>>)
            ELSE \E available \in BOOLEAN, http \in HttpOutcomes :
                 LET response == generate(http)
                     made == <<Called("web", "search", "ok")>>
                             \o GeneratorCalls("web", components.ollama_client /\ available, http)
                 IN IF /\ components.ollama_client /\ available /\ Truthy(response)
                       /\ validate_output(Str(response[1])).valid
                    THEN Return(made, Answer("web+llm", response[1]))
                    ELSE Demote(made)
    /\ UNCHANGED <<cacheVars, threads, retrVars, gateVars, qdrant_client, request>>

\* lines 292-335: the search, and for a non-empty result the generator
WebSearchTier ==
    /\ position = "web"
    /\ IF ~components.search_client
       THEN Demote(<<>>)
       ELSE \E found \in {"ok", "empty", "error"} :
            IF found # "ok"
            THEN Demote(<<Called("web", "search", found)>>)
            ELSE \E available \in BOOLEAN, http \in HttpOutcomes :
                 LET response == generate(http)
                     made == <<Called("web", "search", "ok")>>
                             \o GeneratorCalls("web", components.ollama_client /\ available, http)
                 IN IF components.ollama_client /\ available /\ Truthy(response)
                    THEN Return(made, Answer("web+llm", response[1]))
                    ELSE Demote(made)
    /\ UNCHANGED <<cacheVars, threads, retrVars, gateVars, qdrant_client, request>>

\* a plausible slip: a failed generation is tried a second time
DirectTier_generates_twice ==
    /\ position = "direct"
    /\ \E available \in BOOLEAN, http \in HttpOutcomes, again \in HttpOutcomes :
         LET first == generate(http)
             response == IF Truthy(first) THEN first ELSE generate(again)
             made == GeneratorCalls("direct", components.ollama_client /\ available, http)
                     \o (IF components.ollama_client /\ available /\ ~Truthy(first)
                         THEN <<Called("direct", "generate",
                                       IF again.kind # "ok" THEN again.kind
                                       ELSE IF Truthy(generate(again)) THEN "ok" ELSE "empty")>>
                         ELSE <<>>)
         IN IF components.ollama_client /\ available /\ Truthy(response)
            THEN Return(made, Answer("llm", response[1]))
            ELSE Demote(made)
    /\ UNCHANGED <<cacheVars, threads, retrVars, gateVars, qdrant_client, request>>

\* lines 337-360: the generator without context
DirectTier ==
    /\ position = "direct"
    /\ \E available \in BOOLEAN, http \in HttpOutcomes :
         LET response == generate(http)
             made == GeneratorCalls("direct", components.ollama_client /\ available, http)
         IN IF components.ollama_client /\ available /\ Truthy(response)
            THEN Return(made, Answer("llm", response[1]))
            ELSE Demote(made)
    /\ UNCHANGED <<cacheVars, threads, retrVars, gateVars, qdrant_client, request>>

\* lines 362-370: the fixed message
FinalFallback ==
    /\ position = "final"
    /\ Return(<<>>, Message("fallback",
                         "I'm currently unable to process your question. Please ensure Ollama is running with the llama3.1:8b model, or try again later."))
    /\ UNCHANGED <<cacheVars, threads, retrVars, gateVars, qdrant_client, request>>

NextSolve == Receive \/ KnowledgeBaseTier \/ WebSearchTier \/ DirectTier \/ FinalFallback

SpecSolve == InitSolve /\ [][NextSolve]_vars

\* every call solve makes returns, fails or times out, so the handler always
\* takes its next step
FairSolve == SpecSolve /\ WF_vars(NextSolve)

-----------------------------------------------------------------------------
(* The solve handler of simple_main.py: no knowledge-base tier, and one try *)
(* block around both tiers whose except clause returns a fixed message.     *)

InitSimple ==
    /\ CacheIdle
    /\ GateIdle
    /\ RetrIdle
    /\ qdrant_client = TRUE
    /\ request \in {Str(q) : q \in Questions}
    /\ position = "idle"
    /\ calls = <<>>
    /\ outcome = [kind |-> "none", status |-> 0, source |-> "", detail |-> "",
                  answer |-> <<>>, confidence |-> 0]

\* lines 46-54: the HTTPException is raised outside the try block
SimpleReceive ==
    /\ position = "idle"
    /\ LET verdict == validate_input(request)
       IN IF ~verdict.valid
          THEN Return(<<>>, HTTPException(400, verdict.error))
          ELSE /\ position' = "web"
               /\ UNCHANGED <<calls, outcome>>
    /\ UNCHANGED <<cacheVars, threads, retrVars, gateVars, qdrant_client, request>>

\* lines 56-90 and 111-116: a search that raises ends in the except clause
SimpleWebSearchTier ==
    /\ position = "web"
    /\ \E found \in {"ok", "empty", "error"} :
         IF found = "error"
         THEN Return(<<Called("web", "search", found)>>, Message("error",
                      "I can only help with mathematics education. Please ask a math question."))
         ELSE IF found = "empty"
         THEN /\ position' = "direct"
              /\ calls' = calls \o <<Called("web", "search", found)>>
              /\ UNCHANGED outcome
         ELSE \E available \in BOOLEAN, http \in HttpOutcomes :
              LET response == generate(http)
                  made == <<Called("web", "search", "ok")>>
                          \o GeneratorCalls("web", available, http)
              IN IF available /\ Truthy(response)
                 THEN Return(made, Answer("web+llm", response[1]))
                 ELSE /\ position' = "direct"
                      /\ calls' = calls \o made
                      /\ UNCHANGED outcome
    /\ UNCHANGED <<cacheVars, threads, retrVars, gateVars, qdrant_client, request>>

\* lines 92-109: the generator without context, else the fixed message
SimpleDirectTier ==
    /\ position = "direct"
    /\ \E available \in BOOLEAN, http \in HttpOutcomes :
         LET response == generate(http)
             made == GeneratorCalls("direct", available, http)
         IN IF available /\ Truthy(response)
            THEN Return(made, Answer("llm", response[1]))
            ELSE Return(made, Message("fallback",
                                 "No results found. Please ensure Ollama is running with llama3.1:8b model."))
    /\ UNCHANGED <<cacheVars, threads, retrVars, gateVars, qdrant_client, request>>

NextSimple == SimpleReceive \/ SimpleWebSearchTier \/ SimpleDirectTier

SpecSimple == InitSimple /\ [][NextSimple]_vars

-----------------------------------------------------------------------------
(* The keyword scan of _keyword_search on texts: what lines 101-113 find in *)
(* the page_content of one document for one query.                          *)

\* where the match of math_pattern, [fx]\([^)]+\)\s*=\s*[^\s]+, that starts at
\* i ends; 0 when nothing matches there.  No part of the pattern can give
\* back what it took: [^)]+ stops at the first ")", each \s* at the first
\* character that is not whitespace, and [^\s]+ runs to the next whitespace
MathMatchEnd(s, i) ==
    LET first(S) == CHOOSE j \in S : \A k \in S : j <= k
        closes == {c \in (i + 2)..Len(s) : s[c] = ")"}
        after(b) == {j \in (b + 1)..Len(s) : s[j] \notin Whitespace}
    IN IF ~(i + 1 <= Len(s) /\ s[i] \in {"f", "x"} /\ s[i + 1] = "(") THEN 0
       ELSE IF closes = {} \/ first(closes) < i + 3 THEN 0
       ELSE IF after(first(closes)) = {} \/ s[first(after(first(closes)))] # "=" THEN 0
       ELSE IF after(first(after(first(closes)))) = {} THEN 0
       ELSE LET v == first(after(first(after(first(closes)))))
                stops == {j \in v..Len(s) : s[j] \in Whitespace}
            IN IF stops = {} THEN Len(s) ELSE first(stops) - 1

\* re.findall(math_pattern, s): the matches from position i on, left to right
RECURSIVE findall(_, _)
findall(s, i) ==
    LET starts == {j \in i..Len(s) : MathMatchEnd(s, j) > 0} IN
    IF starts = {} THEN <<>>
    ELSE LET j == CHOOSE j \in starts : \A k \in starts : j <= k
         IN <<SubSeq(s, j, MathMatchEnd(s, j))>> \o findall(s, MathMatchEnd(s, j) + 1)

\* ''.join(matches).replace(' ', '')
RECURSIVE Joined(_)
Joined(matches) ==
    IF matches = <<>> THEN <<>>
    ELSE SelectSeq(Head(matches), LAMBDA c : c # " ") \o Joined(Tail(matches))

_extract_math_expression(query, content) ==
    LET query_math == findall(query, 1)
        content_math == findall(content, 1)
    IN IF query_math # <<>> /\ content_math # <<>>
       THEN Contains(Joined(content_math), Joined(query_math))
       ELSE FALSE

\* set(s.split()): the maximal runs of characters that are not whitespace
Words(s) ==
    {SubSeq(s, r[1], r[2]) :
        r \in {p \in (1..Len(s)) \X (1..Len(s)) :
                 /\ p[1] <= p[2]
                 /\ \A i \in p[1]..p[2] : s[i] \notin Whitespace
                 /\ p[1] = 1 \/ s[p[1] - 1] \in Whitespace
                 /\ p[2] = Len(s) \/ s[p[2] + 1] \in Whitespace}}

\* exact_match, math_expr_match, word_matches and len(query_words) for one document
Scan(query, content) ==
    LET query_lower == lower(query)
        query_words == Words(query_lower)
        content_lower == lower(content)
    IN [exact |-> Contains(content_lower, query_lower),
        math |-> _extract_math_expression(query_lower, content_lower),
        words |-> Cardinality({word \in query_words : Contains(content_lower, word)}),
        of |-> Cardinality(query_words)]

\* queries: one expression, two expressions, words in another case, words of
\* which some occur, a whole sentence, a word and an expression
KeywordQueries ==
    {<<"f", "(", "x", ")", "=", "2">>,
     <<"f", "(", "x", ")", "=", "2", " ", "f", "(", "y", ")", "=", "3">>,
     <<"I", "S", " ", "2">>,
     <<"x", " ", "i", "s", " ", "7">>,
     <<"S", "o", "l", "v", "e", " ", "f", "(", "x", ")", " ", "=", " ", "2">>,
     <<"s", "o", " ", "f", "(", "x", ")", "=", "2">>}

\* the collection holds some of the documents; the scroll returns them and
\* the scan looks at each for the query
InitKeyword ==
    /\ CacheIdle
    /\ GateIdle
    /\ qdrant_client = TRUE
    /\ request \in {Str(q) : q \in KeywordQueries}
    /\ position = "idle"
    /\ calls = <<>>
    /\ outcome = [kind |-> "none", status |-> 0, source |-> "", detail |-> "",
                  answer |-> <<>>, confidence |-> 0]
    /\ \E keys \in [1..NumPoints -> 1..NumContents] :
          index = [i \in 1..NumPoints |->
                     LET found == Scan(request.chars, page_content(keys[i]))
                     IN [key |-> keys[i], sim |-> 30, exact |-> found.exact,
                         math |-> found.math, words |-> found.words, of |-> found.of]]
    /\ kwargs \in [top_k : {1, 3}, score_threshold : {30}]
    /\ vector_results = <<>>
    /\ keyword_results = <<>>
    /\ merged = <<>>
    /\ phase = "input"

\* one call of _keyword_search(query, **kwargs); the scroll may raise
KeywordSearch ==
    /\ phase = "input"
    /\ \E fails \in BOOLEAN :
         /\ keyword_results' = _keyword_search(index, kwargs, fails)
         /\ calls' = <<[tier |-> "keyword", call |-> "scroll",
                        result |-> IF fails THEN "error" ELSE "ok"]>>
    /\ phase' = "keyword"
    /\ UNCHANGED <<cacheVars, threads, gateVars, index, kwargs, vector_results, merged,
                   qdrant_client, request, position, outcome>>

NextKeyword == KeywordSearch

SpecKeyword == InitKeyword /\ [][NextKeyword]_vars

-----------------------------------------------------------------------------
(* Claims about the response cache, one operation at a time *)

\* C1: after any sequence of get, set and clear, for every max_size the
\* constructor accepts, the number of stored entries never exceeds max_size.
C1_SizeNeverExceedsMax == Len(cache) <= max_size

\* C2: a set of a new fingerprint performed while the cache holds max_size
\* entries removes exactly one entry, the one with the minimum last access
\* time at that moment, so that exactly max_size entries are left.
C2_EvictsExactlyOneOldest ==
    [][(/\ last'.op = "set"
        /\ ~DictHas(cache, last'.key)
        /\ Len(cache) = max_size)
       => (/\ Len(last'.evicted) = 1
           /\ DictHas(access_times, last'.evicted[1])
           /\ \A j \in 1..Len(access_times) :
                 DictGet(access_times, last'.evicted[1]).time <= access_times[j].time
           /\ DictKeys(cache') = (DictKeys(cache) \ {last'.evicted[1]}) \cup {last'.key}
           /\ Len(cache') = max_size)]_vars

\* C2 restricted to the sizes for which set can evict (max_size >= 1); kept as
\* a cross-check of what C2's failure rests on
EvictsExactlyOneOldestFromOne ==
    [][(/\ last'.op = "set"
        /\ ~DictHas(cache, last'.key)
        /\ max_size >= 1
        /\ Len(cache) = max_size)
       => (/\ Len(last'.evicted) = 1
           /\ \A j \in 1..Len(access_times) :
                 DictGet(access_times, last'.evicted[1]).time <= access_times[j].time
           /\ DictKeys(cache') = (DictKeys(cache) \ {last'.evicted[1]}) \cup {last'.key}
           /\ Len(cache') = max_size)]_vars

\* C3: for an entry set at time t0 and still stored, a get at time t with
\* t - t0 < ttl is a hit that returns the stored payload, and a get at time t
\* with t - t0 > ttl is a miss.
C3_TtlHitThenMiss ==
    [][(last'.op = "get" /\ DictHas(cache, last'.key))
       => LET e == DictGet(cache, last'.key) IN
          /\ (now - e.timestamp < ttl) => (last'.result = <<e.response>>)
          /\ (now - e.timestamp > ttl) => (last'.result = <<>>)]_vars

\* a get found its entry older than ttl: it returned a miss and dropped the entry
C3_Witness ==
    /\ last.op = "get"
    /\ last.expired
    /\ last.result = <<>>
    /\ ~DictHas(cache, last.key)

-----------------------------------------------------------------------------
(* Claims about the cache shared by concurrent requests *)

Quiescent == \A t \in Threads : threads[t].pc = "idle"

\* C4: with several requests calling get, set and clear concurrently, every
\* check-then-act sequence is atomic: no call fails because of another's
\* interleaving, and between calls the cache is in a state a sequential order
\* of the calls could produce (at most max_size entries, every entry with both
\* its payload and its access time).
C4_CallsAreAtomic ==
    /\ \A t \in Threads : threads[t].pc # "error"
    /\ Quiescent => /\ Len(cache) <= max_size
                    /\ DictKeys(cache) = DictKeys(access_times)

-----------------------------------------------------------------------------
(* Claims about _merge_and_rerank *)

Occurrences(l, id) == {i \in 1..Len(l) : l[i].key = id}

InputIds == DictKeys(vector_results) \cup DictKeys(keyword_results)

ScoreIn(l, id) == l[CHOOSE i \in Occurrences(l, id) : TRUE].score

\* C5: merge gives a document id that is in both lists, with vector score sv
\* and keyword score sk, final_score 0.7*sv + 0.3*sk; a vector-only id 0.7*sv;
\* a keyword-only id 0.3*sk; each id once.  Vector {A 0.9}, keyword {A 0.5},
\* {B 0.6} gives [A 0.78, B 0.18] in that order.
C5_MergeWeights ==
    phase = "merged" =>
      /\ \A i \in 1..Len(merged) :
           LET id == merged[i].key
               nv == Cardinality(Occurrences(vector_results, id))
               nk == Cardinality(Occurrences(keyword_results, id))
           IN /\ id \in InputIds
              /\ Occurrences(merged, id) = {i}
              /\ (nv = 1 /\ nk = 1) =>
                   merged[i].final_score = 7 * ScoreIn(vector_results, id)
                                           + 3 * ScoreIn(keyword_results, id)
              /\ (nv = 1 /\ nk = 0) =>
                   merged[i].final_score = 7 * ScoreIn(vector_results, id)
              /\ (nv = 0 /\ nk = 1) =>
                   merged[i].final_score = 3 * ScoreIn(keyword_results, id)
      /\ Cardinality(InputIds) <= 5 => DictKeys(merged) = InputIds
      /\ (vector_results = ScenarioVector /\ keyword_results = ScenarioKeyword) =>
           /\ Len(merged) = 2
           /\ merged[1].key = 1 /\ merged[1].final_score = 780
           /\ merged[2].key = 2 /\ merged[2].final_score = 180

\* a merged list holding an id from both lists, a vector-only id and a
\* keyword-only id
C5_Witness ==
    /\ phase = "merged"
    /\ \E a, b, c \in DictKeys(merged) :
         /\ a \in DictKeys(vector_results) /\ a \in DictKeys(keyword_results)
         /\ b \in DictKeys(vector_results) /\ b \notin DictKeys(keyword_results)
         /\ c \notin DictKeys(vector_results) /\ c \in DictKeys(keyword_results)

\* C6: the list merge returns is in non-increasing final_score order, has at
\* most 5 results, and every result it leaves out has a final_score no greater
\* than that of every result it keeps.
C6_SortedTop5 ==
    phase = "merged" =>
      /\ Len(merged) <= 5
      /\ \A i, j \in 1..Len(merged) :
           i < j => merged[i].final_score >= merged[j].final_score
      /\ LET all == Combined(vector_results, keyword_results) IN
         \A d \in 1..Len(all) :
           all[d].key \notin DictKeys(merged) =>
             \A i \in 1..Len(merged) : all[d].final_score <= merged[i].final_score

\* more than 5 documents were scored, 5 are returned, not all with one score,
\* and a document with a lower score was left out
C6_Witness ==
    /\ phase = "merged"
    /\ Len(Combined(vector_results, keyword_results)) > 5
    /\ Len(merged) = 5
    /\ merged[1].final_score > merged[5].final_score
    /\ \E d \in 1..Len(Combined(vector_results, keyword_results)) :
         /\ Combined(vector_results, keyword_results)[d].key \notin DictKeys(merged)
         /\ Combined(vector_results, keyword_results)[d].final_score < merged[5].final_score

FromVector(id) == id \in DictKeys(vector_results)

\* C7: in the merged list, results with equal final_score are ordered by source
\* priority (vector before keyword) and then by ascending document id, whatever
\* the order of the documents in the input lists.
C7_TiesBySourceThenId ==
    phase = "merged" =>
      \A i, j \in 1..Len(merged) :
        (i < j /\ merged[i].final_score = merged[j].final_score) =>
          \/ FromVector(merged[i].key) /\ ~FromVector(merged[j].key)
          \/ /\ FromVector(merged[i].key) = FromVector(merged[j].key)
             /\ merged[i].key < merged[j].key

\* the part of C7 the code does keep: at equal final_score a document of the
\* vector list comes before a keyword-only document
TiesVectorBeforeKeyword ==
    phase = "merged" =>
      \A i, j \in 1..Len(merged) :
        (i < j /\ merged[i].final_score = merged[j].final_score) =>
          ~(~FromVector(merged[i].key) /\ FromVector(merged[j].key))

-----------------------------------------------------------------------------
(* Claims about hybrid_search *)

\* C8: the merged list a hybrid search returns never has more results than
\* the top_k the caller passed, for every top_k, those below 5 included.
C8_MergedWithinTopK == phase = "hybrid" => Len(merged) <= kwargs.top_k

\* C9: every result of the merged list has a final_score at or above the
\* score threshold of the search (final_score is in thousandths, the
\* threshold in hundredths).
C9_MergedAboveThreshold ==
    phase = "hybrid" =>
      \A i \in 1..Len(merged) : merged[i].final_score >= 10 * kwargs.score_threshold

-----------------------------------------------------------------------------
(* Claims about the content gate *)

\* validate_input was called with a text
InputCalled == gate_op = "validate_input" /\ gate_arg.type = "str"

\* the text matches a domain keyword, a domain symbol or a structural pattern
MatchesDomain(q) ==
    \/ AnyIn(math_keywords, lower(q))
    \/ AnyIn(math_symbols, q)
    \/ NumberPattern(q)
    \/ RatioPattern(q)
    \/ MeasurementPattern(lower(q))

\* the text matches one of the disallowed patterns
MatchesDisallowed(q) ==
    \E p \in 1..Len(inappropriate_patterns) :
        \E k \in 1..Len(inappropriate_patterns[p]) :
            WordSearch(lower(q), inappropriate_patterns[p][k])

\* C11: sanitization is idempotent: sanitizing the text validate_input
\* returned (already sanitized once) gives the same text again
C11_SanitizeIdempotent ==
    (InputCalled /\ input_validation.valid) =>
        _sanitize_query(input_validation.sanitized_query[1])
            = input_validation.sanitized_query[1]

\* C12: every text that matches a disallowed pattern is rejected with the
\* "inappropriate" reason, domain-relevant or not, and so is the scenario
\* input "What's your phone number?"
C12_DisallowedTakesPrecedence ==
    (InputCalled /\ (MatchesDisallowed(gate_arg.chars) \/ gate_arg.chars = ScenarioPhone)) =>
        (~input_validation.valid /\ input_validation.error = InappropriateError)

\* the order the code has: a text outside the domain gets the out-of-domain
\* reason whether or not it matches a disallowed pattern
DomainCheckedFirst ==
    (InputCalled /\ ~MatchesDomain(gate_arg.chars)) =>
        (~input_validation.valid /\ input_validation.error = OutOfDomainError)

\* C13: a text that matches the domain and no disallowed pattern is accepted:
\* valid, no error, and its sanitized text is returned; for the scenario input
\* "Solve 2x + 3 = 7" that text is the input itself, which has nothing to trim
C13_DomainTextAccepted ==
    (InputCalled /\ MatchesDomain(gate_arg.chars) /\ ~MatchesDisallowed(gate_arg.chars)) =>
        /\ input_validation.valid
        /\ input_validation.error = "None"
        /\ input_validation.sanitized_query = <<_sanitize_query(gate_arg.chars)>>
        /\ gate_arg.chars = ScenarioSolve => input_validation.sanitized_query = <<ScenarioSolve>>

\* the scenario input has been validated and accepted
C13_Witness ==
    /\ InputCalled
    /\ gate_arg.chars = ScenarioSolve
    /\ input_validation.valid

\* C14: a text that matches both the domain and a disallowed pattern is
\* rejected: not valid, the "inappropriate" reason, no sanitized text
C14_DomainAndDisallowedRejected ==
    (InputCalled /\ MatchesDomain(gate_arg.chars) /\ MatchesDisallowed(gate_arg.chars)) =>
        /\ ~input_validation.valid
        /\ input_validation.error = InappropriateError
        /\ input_validation.sanitized_query = <<>>

\* a text with a domain symbol and a disallowed word has been rejected
C14_Witness ==
    /\ InputCalled
    /\ AnyIn(math_symbols, gate_arg.chars)
    /\ MatchesDisallowed(gate_arg.chars)
    /\ input_validation.error = InappropriateError

\* C15: the confidence validate_output returns is within [0.0, 1.0] (0..100
\* hundredths) for every response
C15_ConfidenceInUnitInterval ==
    gate_op = "validate_output" =>
        (output_validation.confidence >= 0 /\ output_validation.confidence <= 100)

\* a response in which all four terms apply and both capped terms are over
\* their cap has been scored
C15_Witness ==
    /\ gate_op = "validate_output"
    /\ gate_arg.type = "str"
    /\ output_validation.valid
    /\ SumCounts(gate_arg.chars, confidence_symbols) > 3
    /\ SumCounts(lower(gate_arg.chars), math_terms) >= 3
    /\ Len(gate_arg.chars) > 100
    /\ output_validation.confidence = 100

\* C16: neither gate method raises: each returns a verdict, and for a value
\* that is not text the verdict is not valid (with confidence 0.0 for output)
C16_GateNeverRaises ==
    /\ gate_op = "validate_input" =>
         /\ ~input_validation.raised
         /\ gate_arg.type # "str" => ~input_validation.valid
    /\ gate_op = "validate_output" =>
         /\ ~output_validation.raised
         /\ gate_arg.type # "str" =>
              (~output_validation.valid /\ output_validation.confidence = 0)

\* validate_input was called with None and returned its error verdict
C16_Witness ==
    /\ gate_op = "validate_input"
    /\ gate_arg.type = "NoneType"
    /\ ~input_validation.valid
    /\ input_validation.error = UnableToProcessError

-----------------------------------------------------------------------------
(* Claims about solve *)

Tiers == {"kb", "web", "direct", "final"}

\* the fallback order of the specification: knowledge base, web search with
\* generation, direct generation, the degraded message
Successor(tier) ==
    IF tier = "kb" THEN "web"
    ELSE IF tier = "web" THEN "direct"
    ELSE IF tier = "direct" THEN "final"
    ELSE "done"

\* the external calls the step being taken makes
NewCalls == SubSeq(calls', Len(calls) + 1, Len(calls'))

\* the call ended in an error, a timeout or an empty result
Failure(c) == c.result \in {"error", "timeout", "empty"}

SomeCallFailed == \E i \in 1..Len(NewCalls) : Failure(NewCalls[i])

FailedIn(tier) == \E i \in 1..Len(calls) : calls[i].tier = tier /\ Failure(calls[i])

\* C17: the tiers are tried in the order knowledge base, web search, direct
\* generation, degraded message: the handler starts at the first tier and
\* leaves a tier either with an outcome or, without one, for the very next
\* tier (a tier whose client is None is passed without a call)
C17_TiersInFixedOrder ==
    [][position' # position =>
          \/ position = "idle" /\ position' \in {"kb", "done"}
          \/ position \in Tiers /\ position' = "done" /\ outcome'.kind # "none"
          \/ /\ position \in Tiers
             /\ position' = Successor(position)
             /\ outcome.kind = "none"
             /\ outcome' = outcome]_vars

\* the degraded message has been returned after calls in each earlier tier
C17_Witness ==
    /\ position = "done"
    /\ outcome.source = "fallback"
    /\ \A tier \in {"kb", "web", "direct"} : \E i \in 1..Len(calls) : calls[i].tier = tier

C19_RejectionReasonUnchanged ==
    (position = "done" /\ ~validate_input(request).valid) =>
        (outcome.kind = "exception" /\ outcome.detail = validate_input(request).error)

\* C20: every outcome of solve is an answer produced by a tier, a validation
\* error, or the degraded message
C20_OutcomeKinds ==
    position = "done" =>
        \/ /\ outcome.kind = "response"
           /\ outcome.source \in {"knowledge_base+llm", "knowledge_base", "web+llm", "llm"}
        \/ /\ outcome.kind = "exception"
           /\ outcome.status = 400
           /\ ~validate_input(request).valid
        \/ /\ outcome.kind = "response"
           /\ outcome.source = "fallback"

-----------------------------------------------------------------------------
(* Claims about solve and the response cache *)

\* the request ended with an answer produced by a tier
Answered ==
    /\ position = "done"
    /\ outcome.kind = "response"
    /\ outcome.source \in {"knowledge_base+llm", "knowledge_base", "web+llm", "llm"}

\* C21: once solve has completed a request with an answer, the cache holds
\* an entry for the fingerprint of that request's question
C21_CompletionIsCached ==
    Answered => DictHas(cache, _generate_key(request.chars, <<>>, <<>>))

\* the texts a tier can take an answer from: what the generator returned, or
\* the raw knowledge-base text built from a document of the collection
AnswerTexts ==
    {strip(http.response) : http \in {h \in HttpOutcomes : h.kind = "ok"}}
    \cup {FromKnowledgeBase(index[i]) : i \in 1..Len(index)}

\* C22: an external call has been made only for a question validate_input
\* accepts (in the domain and not disallowed), and every answer returned is
\* the filtered text validate_output gave for a knowledge-base or generator
\* text, with that verdict's confidence
C22_GateAroundEveryCall ==
    /\ calls # <<>> =>
         /\ _is_math_related(request.chars)
         /\ ~_contains_inappropriate_content(request.chars)
    /\ Answered =>
         \E text \in AnswerTexts :
            /\ outcome.answer = validate_output(Str(text)).filtered_response
            /\ outcome.confidence = validate_output(Str(text)).confidence

\* the generator was called for an accepted question and its text was
\* replaced by the gate's fixed message
C22_Witness ==
    /\ Answered
    /\ outcome.source = "llm"
    /\ outcome.answer = NotEducationalMessage
    /\ \E i \in 1..Len(calls) : calls[i].call = "generate" /\ calls[i].result = "ok"

\* a rejected question ended without any external call
RejectedWithoutCalls ==
    /\ position = "done"
    /\ ~validate_input(request).valid
    /\ calls = <<>>

-----------------------------------------------------------------------------
(* Further claims about the content gate *)

OutputCalled == gate_op = "validate_output" /\ gate_arg.type = "str"

\* C23: for a text in which no educational marker occurs (in any case),
\* validate_output returns valid = false, the fixed message as the filtered
\* text and confidence 0
C23_NoMarkerRejected ==
    (OutputCalled /\ ~AnyIn(educational_markers, lower(gate_arg.chars))) =>
        /\ ~output_validation.raised
        /\ ~output_validation.valid
        /\ output_validation.filtered_response = NotEducationalMessage
        /\ output_validation.confidence = 0

\* a text with an equals sign and a line break but no marker was rejected,
\* and the filtered text is not the text passed in
C23_Witness ==
    /\ OutputCalled
    /\ Contains(gate_arg.chars, <<"=">>)
    /\ Contains(gate_arg.chars, <<"\n">>)
    /\ ~AnyIn(educational_markers, lower(gate_arg.chars))
    /\ ~output_validation.valid
    /\ output_validation.filtered_response = NotEducationalMessage
    /\ output_validation.filtered_response # gate_arg.chars

\* C24: a text that is empty or all whitespace, and every text that matches
\* no domain keyword, symbol or structural pattern, is rejected: not valid,
\* the out-of-domain reason, no sanitized text
C24_OutOfDomainRejected ==
    (InputCalled /\ (AllIn(gate_arg.chars, 1, Len(gate_arg.chars), Whitespace)
                     \/ ~MatchesDomain(gate_arg.chars))) =>
        /\ ~input_validation.raised
        /\ ~input_validation.valid
        /\ input_validation.error = OutOfDomainError
        /\ input_validation.sanitized_query = <<>>

\* a text of whitespace only has been rejected as out of the domain
C24_Witness ==
    /\ InputCalled
    /\ Len(gate_arg.chars) > 0
    /\ AllIn(gate_arg.chars, 1, Len(gate_arg.chars), Whitespace)
    /\ ~input_validation.valid
    /\ input_validation.error = OutOfDomainError

\* the empty text has been rejected as out of the domain
EmptyRejected ==
    /\ InputCalled
    /\ gate_arg.chars = <<>>
    /\ ~input_validation.valid

-----------------------------------------------------------------------------
(* Further claims about the response cache *)

\* x comes before y in lexicographic order.  A fingerprint stands for the
\* digest of the string it is computed from, so the order of the digests is
\* taken to be the order of these strings ("_" sorts before the letters)
LexLess(x, y) ==
    LET rank(c) == IF c = "_" THEN 0 ELSE 1 IN
    \E n \in 0..Min(Len(x), Len(y)) :
        /\ \A i \in 1..n : x[i] = y[i]
        /\ \/ n = Len(x) /\ n < Len(y)
           \/ n < Len(x) /\ n < Len(y) /\ rank(x[n + 1]) < rank(y[n + 1])

\* the keys that share the minimum access time
Oldest(a) == {a[i].key : i \in {k \in 1..Len(a) : \A j \in 1..Len(a) : a[k].time <= a[j].time}}

\* C25: when set evicts, the evicted entry is the one with the smallest
\* fingerprint among the entries that share the minimum access time
C25_TieEvictsSmallestFingerprint ==
    [][(last'.op = "set" /\ Len(last'.evicted) = 1) =>
          \A k \in Oldest(access_times) : ~LexLess(k, last'.evicted[1])]_vars

\* C25 with the opposite order of the fingerprints
TieEvictsLargestFingerprint ==
    [][(last'.op = "set" /\ Len(last'.evicted) = 1) =>
          \A k \in Oldest(access_times) : ~LexLess(last'.evicted[1], k)]_vars

\* what the code does: among the entries that share the minimum access time
\* the one that entered access_times first is evicted
TieEvictsFirstInserted ==
    [][(last'.op = "set" /\ Len(last'.evicted) = 1) =>
          /\ last'.evicted[1] \in Oldest(access_times)
          /\ \A j \in 1..(DictIdx(access_times, last'.evicted[1]) - 1) :
                access_times[j].key \notin Oldest(access_times)]_vars

\* the step is a get that returned a payload
Hit == last'.op = "get" /\ last'.result # <<>>

\* C26: a hit returns the payload stored for its fingerprint, sets that
\* entry's access time to the current time and changes nothing else: the
\* stored entries (payloads and timestamps) and every other access time
C26_HitOnlyTouchesAccessTime ==
    [][Hit =>
          /\ DictHas(cache, last'.key)
          /\ last'.result = <<DictGet(cache, last'.key).response>>
          /\ cache' = cache
          /\ Len(access_times') = Len(access_times)
          /\ \A i \in 1..Len(access_times) :
                IF access_times[i].key = last'.key
                THEN access_times'[i] = [key |-> last'.key, time |-> now']
                ELSE access_times'[i] = access_times[i]
          /\ <<max_size, ttl>>' = <<max_size, ttl>>]_vars

\* a hit at a later time than the entry's insertion, with a second entry
\* stored: the access time of the entry read is the time of the hit, its
\* timestamp and the other entry's access time are older
C26_Witness ==
    /\ last.op = "get"
    /\ last.result # <<>>
    /\ Len(cache) = 2
    /\ DictGet(access_times, last.key).time = now
    /\ DictGet(cache, last.key).timestamp < now
    /\ \E i \in 1..Len(access_times) :
          access_times[i].key # last.key /\ access_times[i].time < now

\* the entry is older than ttl
Stale(e) == now - e.timestamp > ttl

\* C27: a get that finds its entry older than ttl returns a miss and removes
\* that entry, its access time and nothing else; a stored entry, expired or
\* not, leaves the cache only by such a get of its own fingerprint, by the
\* eviction of a set or by clear, and until then it counts toward the size
\* that set compares with max_size
C27_ExpiryIsLazy ==
    [][/\ (last'.op = "get" /\ DictHas(cache, last'.key) /\ Stale(DictGet(cache, last'.key))) =>
            /\ last'.result = <<>>
            /\ cache' = DictDel(cache, last'.key)
            /\ access_times' = DictDel(access_times, last'.key)
       /\ \A i \in 1..Len(cache) :
            ~DictHas(cache', cache[i].key) =>
               \/ last'.op = "get" /\ last'.key = cache[i].key /\ Stale(cache[i])
               \/ last'.op = "set" /\ last'.evicted = <<cache[i].key>>
               \/ last'.op = "clear"
       /\ (last'.op = "set" /\ Len(cache) >= max_size /\ Len(access_times) > 0) =>
            Len(last'.evicted) = 1]_vars

\* a get found its entry expired and removed it while another expired entry
\* stayed stored
C27_Witness ==
    /\ last.op = "get"
    /\ last.expired
    /\ ~DictHas(cache, last.key)
    /\ \E i \in 1..Len(cache) : Stale(cache[i])

-----------------------------------------------------------------------------
(* Claims about the keyword source *)

\* the keyword search has run and its scroll did not fail
Scanned == phase = "keyword" /\ calls[1].result = "ok"

\* some math expression of the query occurs, spaces removed, in some math
\* expression of the document
SharesExpression(query, content) ==
    \E i \in 1..Len(findall(lower(query), 1)), j \in 1..Len(findall(lower(content), 1)) :
        Contains(Joined(<<findall(lower(content), 1)[j]>>), Joined(<<findall(lower(query), 1)[i]>>))

\* the score the three criteria give: the maximum of 1.0 for the whole query
\* verbatim, 0.8 for a shared math expression, 0.6 times the part of the
\* query words that occur in the document
MaxOfCriteria(query, content) ==
    LET verbatim == IF Contains(lower(content), lower(query)) THEN 100 ELSE 0
        expression == IF SharesExpression(query, content) THEN 80 ELSE 0
        matched == {w \in Words(lower(query)) : Contains(lower(content), w)}
        overlap == IF Words(lower(query)) = {} THEN 0
                   ELSE (Cardinality(matched) * 60) \div Cardinality(Words(lower(query)))
        Max(a, b) == IF a > b THEN a ELSE b
    IN Max(verbatim, Max(expression, overlap))

\* C28: every document the keyword search returns carries the maximum of the
\* three criteria as its score, and a scanned document for which that
\* maximum is above 0.3 is returned unless top_k cut the list
C28_ScoreIsMaxOfCriteria ==
    Scanned =>
        /\ \A j \in 1..Len(keyword_results) :
              keyword_results[j].score
                = MaxOfCriteria(request.chars, page_content(keyword_results[j].key))
        /\ Len(keyword_results) < kwargs.top_k =>
              \A i \in 1..Len(index) :
                 MaxOfCriteria(request.chars, page_content(index[i].key)) > 30 =>
                    index[i].key \in DictKeys(keyword_results)

\* what the code computes: the first criterion that applies, where the math
\* criterion compares all expressions of the query, joined, with all
\* expressions of the document, joined
ScoreIsFirstCriterion ==
    Scanned =>
        \A j \in 1..Len(keyword_results) :
           LET query == lower(request.chars)
               content == lower(page_content(keyword_results[j].key))
               matched == {w \in Words(query) : Contains(content, w)}
           IN keyword_results[j].score =
                 IF Contains(content, query) THEN 100
                 ELSE IF /\ findall(query, 1) # <<>>
                         /\ findall(content, 1) # <<>>
                         /\ Contains(Joined(findall(content, 1)), Joined(findall(query, 1)))
                      THEN 80
                 ELSE (Cardinality(matched) * 60) \div Cardinality(Words(query))

\* half of the query words, and nothing else, were found in the document
HalfOverlap(pt) == ~pt.exact /\ ~pt.math /\ pt.words > 0 /\ 2 * pt.words = pt.of

\* C29: every document the keyword search returns has a score above 0.3, a
\* document in which exactly half of the query words were found is not
\* returned, the list is in non-increasing score order and has at most top_k
\* documents
C29_AboveThresholdSortedTopK ==
    Scanned =>
        /\ \A j \in 1..Len(keyword_results) : keyword_results[j].score > 30
        /\ \A i \in 1..Len(index) :
              HalfOverlap(index[i]) => index[i].key \notin DictKeys(keyword_results)
        /\ \A i, j \in 1..Len(keyword_results) :
              i < j => keyword_results[i].score >= keyword_results[j].score
        /\ Len(keyword_results) <= kwargs.top_k

\* of two scanned documents the one with half of the query words was dropped
\* and the other returned
C29_Witness ==
    /\ Scanned
    /\ \E i \in 1..Len(index) : HalfOverlap(index[i])
    /\ Len(keyword_results) = 1

\* two scanned documents scored above 0.3, the later one higher, and top_k = 1
\* kept only that one
BestOfTwoKept ==
    /\ Scanned
    /\ kwargs.top_k = 1
    /\ KeywordScore(index[1]) > 30
    /\ KeywordScore(index[2]) > KeywordScore(index[1])
    /\ keyword_results = <<[key |-> index[2].key, score |-> KeywordScore(index[2])]>>

-----------------------------------------------------------------------------
(* Claims about failures of the index *)

\* the call the search made to the index for this source raised
IndexFailed(source) ==
    \E i \in 1..Len(calls) : calls[i].tier = source /\ calls[i].result = "error"

\* C30: in a hybrid search a source whose index call raised contributes an
\* empty list, the other source's list is what it is without the failure,
\* and the search returns the merge of the two lists
C30_FailureGivesEmptyList ==
    phase = "hybrid" =>
        /\ IndexFailed("vector") => vector_results = <<>>
        /\ IndexFailed("keyword") => keyword_results = <<>>
        /\ ~IndexFailed("vector") => vector_results = _vector_search(index, kwargs, FALSE)
        /\ ~IndexFailed("keyword") => keyword_results = _keyword_search(index, kwargs, FALSE)
        /\ merged = _merge_and_rerank(vector_results, keyword_results)

\* the vector search failed and the hybrid search returned the documents of
\* the keyword search
C30_Witness ==
    /\ phase = "hybrid"
    /\ IndexFailed("vector")
    /\ ~IndexFailed("keyword")
    /\ vector_results = <<>>
    /\ keyword_results # <<>>
    /\ DictKeys(merged) = DictKeys(keyword_results)

-----------------------------------------------------------------------------
(* Claims about the filtered text *)

\* the lines of a text that have a character other than whitespace, in order
NonBlankLines(text) ==
    SelectSeq(split(text), LAMBDA line : \E i \in 1..Len(line) : line[i] \notin Whitespace)

\* C31: for a text validate_output accepts, the filtered text is the
\* non-blank lines of the text, in their order, joined by line breaks (the
\* text itself if it had no such line)
C31_FilterKeepsNonBlankLines ==
    (OutputCalled /\ output_validation.valid) =>
        output_validation.filtered_response =
            IF NonBlankLines(gate_arg.chars) = <<>> THEN gate_arg.chars
            ELSE join(NonBlankLines(gate_arg.chars))

\* an accepted text of three lines, the middle one blank: the filtered text
\* has the two others, in order
C31_Witness ==
    /\ OutputCalled
    /\ output_validation.valid
    /\ Len(split(gate_arg.chars)) = 3
    /\ Len(NonBlankLines(gate_arg.chars)) = 2
    /\ output_validation.filtered_response
         = split(gate_arg.chars)[1] \o <<"\n">> \o split(gate_arg.chars)[3]

-----------------------------------------------------------------------------
(* Further claims about set and the fingerprint *)

\* C32: a set of a fingerprint that is stored, performed while the cache
\* holds max_size entries, replaces that entry and leaves every other entry
\* and the number of entries as they are
C32_OverwriteEvictsNothing ==
    [][(/\ last'.op = "set"
        /\ DictHas(cache, last'.key)
        /\ max_size >= 1
        /\ Len(cache) = max_size)
       => (/\ DictKeys(cache') = DictKeys(cache)
           /\ Len(cache') = Len(cache)
           /\ \A i \in 1..Len(cache) :
                 cache[i].key # last'.key =>
                    /\ DictHas(cache', cache[i].key)
                    /\ DictGet(cache', cache[i].key) = cache[i])]_vars

\* what the code does: such a set first evicts the entry with the oldest
\* access, the entry being set or another one
OverwriteAtCapacityEvicts ==
    [][(/\ last'.op = "set"
        /\ DictHas(cache, last'.key)
        /\ max_size >= 1
        /\ Len(cache) = max_size)
       => (/\ last'.evicted = <<access_times[OldestIdx(access_times)].key>>
           /\ DictKeys(cache') = (DictKeys(cache) \ {last'.evicted[1]}) \cup {last'.key})]_vars

\* the triple get or set is called with
Triples == Queries \X Contexts \X Models

\* C33: the fingerprint a hit looked up is the fingerprint of one triple
\* only, so the payload returned was stored under the triple asked for
C33_FingerprintNamesOneTriple ==
    [][Hit =>
          \A t1, t2 \in Triples :
             (/\ _generate_key(t1[1], t1[2], t1[3]) = last'.key
              /\ _generate_key(t2[1], t2[2], t2[3]) = last'.key) => t1 = t2]_vars

\* the same for triples whose query and context do not contain "_"
PlainTriplesAreDistinct ==
    [][Hit =>
          \A t1, t2 \in Triples :
             (/\ _generate_key(t1[1], t1[2], t1[3]) = last'.key
              /\ _generate_key(t2[1], t2[2], t2[3]) = last'.key
              /\ \A i \in 1..2, t \in {t1, t2} : \A j \in 1..Len(t[i]) : t[i][j] # "_")
             => t1 = t2]_vars

-----------------------------------------------------------------------------
(* Claims about the two dictionaries of the cache *)

\* C34: after every get, set or clear executed one at a time, the keys of
\* cache and the keys of access_times are the same set, and every access time
\* is at least the timestamp of its entry
C34_DictionariesAgree ==
    /\ DictKeys(cache) = DictKeys(access_times)
    /\ Len(cache) = Len(access_times)
    /\ \A i \in 1..Len(cache) :
          DictGet(access_times, cache[i].key).time >= cache[i].timestamp

\* a set at capacity evicted one entry and stored another, read after it was stored
C34_Witness ==
    /\ last.op = "set"
    /\ last.evicted # <<>>
    /\ Len(cache) = 2
    /\ \E i \in 1..Len(cache) :
          DictGet(access_times, cache[i].key).time > cache[i].timestamp

\* C35: hits do not extend an entry's lifetime: a get of an entry read after
\* its creation is a miss, and drops the entry, once the time since the
\* creation exceeds ttl; a hit leaves the timestamp as it is; a set stamps
\* its entry with the time of the set, and a get within ttl of that stamp hits
C35_HitsDoNotExtendLifetime ==
    [][/\ (/\ last'.op = "get"
           /\ DictHas(cache, last'.key)
           /\ DictGet(access_times, last'.key).time > DictGet(cache, last'.key).timestamp
           /\ now - DictGet(cache, last'.key).timestamp > ttl)
          => (/\ last'.result = <<>>
              /\ ~DictHas(cache', last'.key))
       /\ Hit => DictGet(cache', last'.key).timestamp = DictGet(cache, last'.key).timestamp
       /\ (last'.op = "set")
          => DictGet(cache', last'.key).timestamp = now
       /\ (/\ last'.op = "get"
           /\ DictHas(cache, last'.key)
           /\ now - DictGet(cache, last'.key).timestamp <= ttl)
          => last'.result = <<DictGet(cache, last'.key).response>>]_vars

\* an entry older than ttl that was read within ttl
C35_Witness ==
    \E i \in 1..Len(cache) :
       /\ now - cache[i].timestamp > ttl
       /\ DictGet(access_times, cache[i].key).time > cache[i].timestamp
       /\ now - DictGet(access_times, cache[i].key).time <= ttl

\* an entry set again after time has passed: its ttl runs from the second set
SetAgainRestartsTtl ==
    /\ last.op = "set"
    /\ now > ttl
    /\ DictHas(cache, last.key)
    /\ now - DictGet(cache, last.key).timestamp <= ttl

-----------------------------------------------------------------------------
(* Claims about the tiers of solve *)

\* the knowledge-base tier searched the collection and its first candidate
\* scores above the request's threshold
KbFound ==
    /\ \E i \in 1..Len(calls) : calls[i] = Called("kb", "index_search", "ok")
    /\ LET kb_results == _keyword_search(index, kwargs, FALSE)
       IN kb_results # <<>> /\ kb_results[1].score > kwargs.score_threshold

\* the generator returned a text to the knowledge-base tier
KbGenerated == \E i \in 1..Len(calls) : calls[i] = Called("kb", "generate", "ok")

\* C36: once the knowledge-base tier has a candidate above the threshold, the
\* request is answered from that tier: with the gated text of the generator
\* when the generation succeeded, else with the gated raw content of the
\* candidate; no call of the web-search or direct tier is made
C36_KbMatchAnswersFromKb ==
    KbFound =>
       /\ position = "done"
       /\ \A i \in 1..Len(calls) : calls[i].tier = "kb"
       /\ IF KbGenerated
          THEN \E http \in HttpOutcomes :
                  /\ Truthy(generate(http))
                  /\ outcome = Answer("knowledge_base+llm", generate(http)[1])
          ELSE outcome = Answer("knowledge_base",
                                FromKnowledgeBase(_keyword_search(index, kwargs, FALSE)[1]))

\* the generator timed out for a candidate above the threshold, and the
\* request was answered with the raw content
C36_Witness ==
    /\ KbFound
    /\ \E i \in 1..Len(calls) : calls[i] = Called("kb", "generate", "timeout")
    /\ outcome.source = "knowledge_base"
    /\ position = "done"

\* a candidate at or below the threshold sends the request to the web tier
KbBelowThresholdDemotes ==
    /\ \E i \in 1..Len(calls) : calls[i] = Called("kb", "index_search", "ok")
    /\ ~KbFound
    /\ \E i \in 1..Len(calls) : calls[i].tier = "web"

\* the texts the generator can return that validate_output rejects
RejectedTexts ==
    {text \in {strip(http.response) : http \in {h \in HttpOutcomes : h.kind = "ok"}} :
        text # <<>> /\ ~validate_output(Str(text)).valid}

\* the tier's last call of this step is a generation that returned a text
GeneratedIn(tier) ==
    /\ position = tier
    /\ Len(calls') > Len(calls)
    /\ calls'[Len(calls')] = Called(tier, "generate", "ok")

\* C37: a tier whose generator returned a text answers the request itself;
\* when validate_output rejects that text the answer is the gate's fixed
\* message with confidence 0, never a rejected text, and no lower tier runs
C37_RejectedTextNeverReturned ==
    [][\A tier \in {"kb", "web", "direct"} :
          GeneratedIn(tier) =>
             /\ position' = "done"
             /\ outcome'.kind = "response"
             /\ \A i \in 1..Len(calls') :
                   calls'[i].tier \in {"kb", "web", "direct"}
                   /\ (calls'[i].tier = "direct" => tier = "direct")
                   /\ (calls'[i].tier = "web" => tier # "kb")
             /\ outcome'.answer \notin RejectedTexts
             /\ \E http \in HttpOutcomes :
                   /\ Truthy(generate(http))
                   /\ LET verdict == validate_output(Str(generate(http)[1]))
                      IN IF verdict.valid
                         THEN /\ outcome'.answer = verdict.filtered_response
                              /\ outcome'.confidence = verdict.confidence
                         ELSE /\ outcome'.answer = NotEducationalMessage
                              /\ outcome'.confidence = 0]_vars

\* the web tier's generator returned a text, and the request was answered by
\* that tier with the fixed message and confidence 0
C37_Witness ==
    /\ position = "done"
    /\ calls # <<>>
    /\ calls[Len(calls)] = Called("web", "generate", "ok")
    /\ outcome.source = "web+llm"
    /\ outcome.answer = NotEducationalMessage
    /\ outcome.confidence = 0

\* the place of a position in the text of solve
TierRank(p) ==
    CASE p = "idle" -> 0
      [] p = "kb" -> 1
      [] p = "web" -> 2
      [] p = "direct" -> 3
      [] p = "final" -> 4
      [] p = "done" -> 5

\* the generation calls made so far
Generations == {i \in 1..Len(calls) : calls[i].call = "generate"}

\* C38: every solve invocation ends, with one outcome that is set once, at the
\* step that ends it; control only moves forward through the tiers, so that
\* no tier is visited twice and the calls of a tier are never followed by
\* calls of an earlier one; and at most two generation calls are made
C38_SolveTerminatesOnce ==
    /\ <>(position = "done")
    /\ [][/\ TierRank(position') > TierRank(position)
          /\ (outcome' # outcome) = (position' = "done")
          /\ outcome' # outcome => outcome.kind = "none" /\ outcome'.kind # "none"]_vars
    /\ [](/\ \A i, j \in 1..Len(calls) :
                i < j => TierRank(calls[i].tier) <= TierRank(calls[j].tier)
          /\ Cardinality(Generations) <= 2
          /\ (position = "done") = (outcome.kind # "none"))

\* a request that went through all four blocks with two generation calls,
\* one in the web tier and one in the direct tier, and ended with the fixed message
C38_Witness ==
    /\ position = "done"
    /\ outcome.source = "fallback"
    /\ Cardinality(Generations) = 2
    /\ \E i \in Generations : calls[i].tier = "web"
    /\ \E i \in Generations : calls[i].tier = "direct"

====
